---- MODULE Spec2Model ----
(***************************************************************************)
(* Relay: multi-tenant event relay with a visitor-support chat.           *)
(*                                                                         *)
(* Two operating-system processes share one PostgreSQL database:           *)
(*   - the API server (src/api.py, FastAPI): one asyncio event loop; its   *)
(*     handlers call the blocking storage functions without awaiting in    *)
(*     between, so one API handler runs at a time;                         *)
(*   - the bot (src/bot.py, python-telegram-bot): updates are handled one  *)
(*     at a time; the repeating daily_summary_job runs on the same loop    *)
(*     and is suspended at each awaited send.                              *)
(* Every storage function opens its own connection and commits before it   *)
(* returns (src/database.py), so the two processes interleave at the       *)
(* granularity of one storage call.  A handler is therefore modelled as    *)
(* one step per storage call that another process can observe.            *)
(*                                                                         *)
(* The chat storage functions (create_chat_session, add_chat_message,      *)
(* get_chat_session, get_chat_messages, close_chat_session) are called by  *)
(* api.py and bot.py but are not defined in src/database.py; they are      *)
(* modelled from spec.md sections 3 and 4.2.                               *)
(***************************************************************************)
EXTENDS Integers, Sequences, FiniteSets, Bags, TLC

VARIABLES
    clients,          \* table clients: id -> row
    telegram_chats,   \* table telegram_chats: set of link rows
    settings,         \* table settings: <<client_id, key>> -> value ("" = no row)
    orders,           \* table orders: rows in insertion order
    events,           \* table events: rows in insertion order
    chat_sessions,    \* chat sessions: session_id -> row
    chat_messages,    \* chat messages: session_id -> rows in insertion order
    now,              \* int(time.time()) of the server clock
    caller,           \* the slug and Authorization header of an outside caller
    api,              \* the API handler in flight (or its last response)
    bot,              \* the bot update handler in flight (or its last reply)
    user_data,        \* context.user_data["awaiting_reply"], per Telegram user
    tasks,            \* bag of notification tasks created with asyncio.create_task
    outbox,           \* calls of Bot.send_message, with their outcome
    keyboards,        \* bag of the inline keyboards of the delivered messages
    acked,            \* per session: the posts whose handler reported success
    wall,             \* datetime.now() of the bot: [day, hour, minute]
    bot_data,         \* context.bot_data: summary_last_day, summary_sent
    sets,             \* the set objects that summary_sent has referred to
    jobs              \* executions of daily_summary_job

dbVars     == <<clients, telegram_chats, settings, orders, events>>
chatVars   == <<chat_sessions, chat_messages, acked>>
procVars   == <<api, bot, user_data>>
notifVars  == <<tasks, outbox, keyboards>>
tickVars   == <<wall, bot_data, sets, jobs>>
vars       == <<clients, telegram_chats, settings, orders, events,
                chat_sessions, chat_messages, now, caller, api, bot, user_data,
                tasks, outbox, keyboards, acked, wall, bot_data, sets, jobs>>

----------------------------------------------------------------------------
\* Bounds of the model.

MaxSessions  == 1
MaxMsgs      == 2
MaxTime      == 2
MaxHeaderLen == 3
MaxDays      == 2
MaxOrders    == 1
MaxEvents    == 1
MaxSends     == 4

----------------------------------------------------------------------------
\* Tenants (table clients, src/database.py:36-46).

\* The ids that the sequence of clients.id gives out; row 4 is not created
\* until setup_client.py is run once more.
ClientIds == {1, 2, 3, 4}

NoClient ==
    [exists |-> FALSE, id |-> 0, slug |-> "", name |-> "", api_secret |-> <<>>,
     telegram_chat_id |-> 0, active |-> FALSE]

\* Rows as setup_client.py creates them; tenant 3 has been soft-disabled.
\* telegram_chat_id 0 stands for NULL (both are falsy in the notifier).
ProvisionedClients ==
    [c \in ClientIds |->
        IF c = 1 THEN [exists |-> TRUE, id |-> 1, slug |-> "acme", name |-> "Acme",
                       api_secret |-> <<"x">>, telegram_chat_id |-> 0, active |-> TRUE]
        ELSE IF c = 2 THEN [exists |-> TRUE, id |-> 2, slug |-> "beta", name |-> "Beta",
                       api_secret |-> <<"x", "x">>, telegram_chat_id |-> 0, active |-> TRUE]
        ELSE IF c = 3 THEN [exists |-> TRUE, id |-> 3, slug |-> "old", name |-> "Old",
                       api_secret |-> <<"x">>, telegram_chat_id |-> 0, active |-> FALSE]
        ELSE NoClient]

\* The Telegram chats an update can come from; 30 is linked to no tenant.
ChatIds == {10, 20, 30}

\* The Telegram users that write to the bot.  context.user_data is kept per
\* user, whatever chat an update comes from.
Users == {"u1", "u2"}

\* Slugs a caller can put in the path.
Slugs == {"acme", "beta", "old", "nope"}

get_client_by_slug(slug) ==
    LET hit == {c \in ClientIds : clients[c].slug = slug /\ clients[c].active}
    IN  IF hit = {} THEN NoClient ELSE clients[CHOOSE c \in hit : TRUE]

\* JOIN ... LIMIT 1: any one of the matching rows.
get_client_by_chat_id(chat_id) ==
    {c \in ClientIds :
        /\ clients[c].active
        /\ \E l \in telegram_chats :
              l.client_id = c /\ l.chat_id = chat_id /\ l.active}

get_all_active_clients ==
    {c \in ClientIds : clients[c].active /\ clients[c].telegram_chat_id # 0}

----------------------------------------------------------------------------
\* Authorization header and verify_secret (src/api.py:78-83).
\* A header is a sequence of atoms: "Bearer " (the seven-character prefix),
\* " " (white space) and the secret character "x"; the secrets are "x" and
\* "xx".

HeaderAtoms == {"Bearer ", " ", "x"}

RECURSIVE SeqsUpTo(_, _)
SeqsUpTo(S, n) ==
    IF n = 0 THEN {<<>>}
    ELSE LET shorter == SeqsUpTo(S, n - 1)
         IN  shorter \cup {Append(s, a) : s \in shorter, a \in S}

Headers == SeqsUpTo(HeaderAtoms, MaxHeaderLen)

RECURSIVE LStrip(_)
LStrip(s) == IF s # <<>> /\ Head(s) = " " THEN LStrip(Tail(s)) ELSE s

\* str.rstrip(): the white space at the end goes, also the one that ends
\* the atom "Bearer ", of which the six letters "Bearer" stay.
RECURSIVE RStrip(_)
RStrip(s) ==
    IF s = <<>> THEN s
    ELSE IF s[Len(s)] = " " THEN RStrip(SubSeq(s, 1, Len(s) - 1))
    ELSE IF s[Len(s)] = "Bearer "
    THEN Append(SubSeq(s, 1, Len(s) - 1), "Bearer")
    ELSE s

Strip(s) == LStrip(RStrip(s))

StartsWithBearer(authorization) ==
    authorization # <<>> /\ Head(authorization) = "Bearer "

RemovePrefixBearer(authorization) ==
    IF StartsWithBearer(authorization) THEN Tail(authorization) ELSE authorization

\* HTTP responses: code 0 means "no error raised, the handler goes on".
NoResp == [code |-> 0, detail |-> "", session_id |-> <<"", 0>>,
           status |-> "", messages |-> <<>>, maintenance |-> ""]

HttpError(code, detail) == [NoResp EXCEPT !.code = code, !.detail = detail]

Ok == [NoResp EXCEPT !.code = 200]

\* Mutant: any bearer header passes, the secret is not compared.
verify_secret_any_bearer(client, authorization) ==
    IF authorization = <<>> \/ ~StartsWithBearer(authorization)
    THEN HttpError(401, "Missing Authorization header")
    ELSE NoResp

verify_secret(client, authorization) ==
    IF authorization = <<>> \/ ~StartsWithBearer(authorization)
    THEN HttpError(401, "Missing Authorization header")
    ELSE IF Strip(RemovePrefixBearer(authorization)) # client.api_secret
    THEN HttpError(401, "Invalid secret")
    ELSE NoResp

\* The first lines of every tenant-scoped route (src/api.py:101-104 and alike).
Authenticate(slug, authorization) ==
    LET client == get_client_by_slug(slug)
    IN  IF ~client.exists THEN HttpError(404, "Client not found")
        ELSE verify_secret(client, authorization)

----------------------------------------------------------------------------
\* Chat storage (modelled from spec.md 3 and 4.2; the functions are called at
\* src/api.py:161-225 and src/bot.py:195-342).

\* Session ids are opaque tokens; the bot upper-cases the id an owner types
\* (src/bot.py:192, 226), so an id is a pair <<case, n>> and the stored ids
\* are the upper-case ones.
SessionIds == {<<"S", i>> : i \in 1..MaxSessions}

\* An id that no session has.
UnknownSid == <<"S", 0>>

\* What a visitor's widget can send: the API compares ids as they are.
PathIds == SessionIds \cup {UnknownSid}

\* What an owner can type after /reply or /close, in either case.
TypedIds == PathIds \cup {<<"s", i>> : i \in 1..MaxSessions}

NoSid == <<"", 0>>

Upper(typed) == <<"S", typed[2]>>

Visitors == {"Ann"}

Texts == {"hi"}

NoSession ==
    [exists |-> FALSE, client_id |-> 0, visitor_id |-> "", status |-> "",
     created_at |-> 0]

get_chat_session(session_id) ==
    IF session_id \in SessionIds /\ chat_sessions[session_id].exists
    THEN chat_sessions[session_id]
    ELSE NoSession

create_chat_session(session_id, client_id, visitor_id) ==
    [chat_sessions EXCEPT ![session_id] =
        [exists |-> TRUE, client_id |-> client_id, visitor_id |-> visitor_id,
         status |-> "open", created_at |-> now]]

\* sent_at is assigned by the engine at write time.
add_chat_message(session_id, sender, message) ==
    [chat_messages EXCEPT ![session_id] =
        Append(@, [sender |-> sender, message |-> message, sent_at |-> now])]

close_chat_session(session_id) ==
    [chat_sessions EXCEPT ![session_id].status = "closed"]

RECURSIVE InsertBySentAt(_, _)
InsertBySentAt(sorted, m) ==
    IF sorted = <<>> THEN <<m>>
    ELSE IF sorted[Len(sorted)].sent_at <= m.sent_at THEN Append(sorted, m)
    ELSE Append(InsertBySentAt(SubSeq(sorted, 1, Len(sorted) - 1), m),
                sorted[Len(sorted)])

\* ORDER BY sent_at, ties in insertion order.
RECURSIVE SortBySentAt(_)
SortBySentAt(rows) ==
    IF rows = <<>> THEN <<>>
    ELSE InsertBySentAt(SortBySentAt(SubSeq(rows, 1, Len(rows) - 1)),
                        rows[Len(rows)])

SentAfter(rows, since) ==
    SelectSeq(rows, LAMBDA m : m.sent_at > since)

get_chat_messages(session_id, since) ==
    SortBySentAt(SentAfter(chat_messages[session_id], since))

get_open_sessions_for_client(client_id) ==
    {s \in SessionIds :
        /\ chat_sessions[s].exists
        /\ chat_sessions[s].client_id = client_id
        /\ chat_sessions[s].status = "open"}

----------------------------------------------------------------------------
\* Handlers in flight.

IdleApi ==
    [kind |-> "", pc |-> "idle", slug |-> "", authorization |-> <<>>,
     sid |-> NoSid, since |-> 0, text |-> "",
     visitor |-> "", client_id |-> 0, dest |-> 0, session |-> NoSession,
     resp |-> NoResp]

ApiDone(kind, client_id, sid, since, resp) ==
    [IdleApi EXCEPT !.kind = kind, !.pc = "done", !.client_id = client_id,
                    !.sid = sid, !.since = since, !.resp = resp]

\* The path slug and the Authorization header of a request.
From(request, slug, authorization) ==
    [request EXCEPT !.slug = slug, !.authorization = authorization]

ApiFree == api.pc \in {"idle", "done"}

IdleBot ==
    [kind |-> "", pc |-> "idle", chat |-> 0, user |-> "", sid |-> NoSid,
     text |-> "", visitor |-> "", client_id |-> 0, session |-> NoSession,
     reply |-> ""]

BotDone(kind, chat, sid, reply) ==
    [IdleBot EXCEPT !.kind = kind, !.pc = "done", !.chat = chat, !.sid = sid,
                    !.reply = reply]

BotFree == bot.pc \in {"idle", "done"}

NoPending == [pending |-> FALSE, session_id |-> NoSid, visitor |-> ""]

\* Appends that a handler has been cleared for and has not executed yet.
PendingAppends(sid) ==
    (IF api.pc \in {"save_first", "append"} /\ api.sid = sid THEN 1 ELSE 0)
    + (IF bot.pc = "append" /\ bot.sid = sid THEN 1 ELSE 0)

\* The model stops accepting posts for a session that holds MaxMsgs messages.
Room(sid) ==
    sid \in SessionIds => Len(chat_messages[sid]) + PendingAppends(sid) < MaxMsgs

\* The arguments of a sender; payload tells a dict from None (the body of a
\* generic event may carry "payload": null).
Task(kind, dest, sid, visitor, text) ==
    [kind |-> kind, dest |-> dest, sid |-> sid, visitor |-> visitor,
     text |-> text, payload |-> "dict"]

\* Mutant: the route creates the task twice.
CreatedTwice(task) == tasks (+) SetToBag({task}) (+) SetToBag({task})

\* asyncio.create_task: the task joins those waiting to run, in no order.
Created(task) == tasks (+) SetToBag({task})

----------------------------------------------------------------------------
\* API chat routes (src/api.py:149-226).

\* Mutant: chat_start forgets to save the first message.
chat_start_save_forgotten(session_id, first_message) ==
    chat_messages

\* chat_start, line 168: the first message is saved as a visitor message.
chat_start_save(session_id, first_message) ==
    add_chat_message(session_id, "visitor", first_message)

\* Mutant: chat_message does not compare the session's tenant.
chat_message_check_any_tenant(client, session) ==
    IF ~session.exists THEN HttpError(404, "Session not found")
    ELSE IF session.status = "closed" THEN HttpError(400, "Session is closed")
    ELSE NoResp

\* Mutant: chat_message does not look at the session's status.
chat_message_check_any_status(client, session) ==
    IF ~session.exists \/ session.client_id # client.id
    THEN HttpError(404, "Session not found")
    ELSE NoResp

\* chat_message, lines 188-192.
chat_message_check(client, session) ==
    IF ~session.exists \/ session.client_id # client.id
    THEN HttpError(404, "Session not found")
    ELSE IF session.status = "closed"
    THEN HttpError(400, "Session is closed")
    ELSE NoResp

\* chat_poll, lines 208-210.
chat_poll_check(session) ==
    IF ~session.exists THEN HttpError(404, "Session not found") ELSE NoResp

\* Mutant: the poll reports every session as open.
chat_poll_response_reports_open(session, session_id, since) ==
    [Ok EXCEPT !.status = "open",
               !.messages = get_chat_messages(session_id, since)]

\* chat_poll, lines 212-216.
chat_poll_response(session, session_id, since) ==
    [Ok EXCEPT !.status = session.status,
               !.messages = get_chat_messages(session_id, since)]

\* Mutant: chat_close refuses a session that is already closed.
chat_close_check_open_only(session) ==
    IF ~session.exists THEN HttpError(404, "Session not found")
    ELSE IF session.status = "closed" THEN HttpError(400, "Session is closed")
    ELSE NoResp

\* chat_close, lines 222-224.
chat_close_check(session) ==
    IF ~session.exists THEN HttpError(404, "Session not found") ELSE NoResp

\* chat_start up to the return of create_chat_session (lines 156-165).
ChatStartCreate(slug, authorization, visitor_name, first_message) ==
    /\ ApiFree
    /\ LET err    == Authenticate(slug, authorization)
           client == get_client_by_slug(slug)
       IN  IF err.code # 0
           THEN /\ api' = From(ApiDone("chat_start", 0, NoSid, 0, err),
                                  slug, authorization)
                /\ UNCHANGED chat_sessions
           ELSE \E sid \in SessionIds :
                /\ ~chat_sessions[sid].exists
                /\ chat_sessions' = create_chat_session(sid, client.id, visitor_name)
                /\ api' = [IdleApi EXCEPT !.kind = "chat_start", !.pc = "save_first",
                                          !.slug = slug,
                                          !.authorization = authorization,
                                          !.sid = sid, !.text = first_message,
                                          !.visitor = visitor_name,
                                          !.client_id = client.id,
                                          !.dest = client.telegram_chat_id]
    /\ UNCHANGED <<caller, dbVars, chat_messages, acked, now, bot, user_data, notifVars,
                   tickVars>>

\* chat_start from add_chat_message to the return (lines 168-173).
ChatStartSave ==
    /\ api.pc = "save_first"
    /\ chat_messages' = chat_start_save(api.sid, api.text)
    /\ tasks' = Created(Task("new_chat", api.dest, api.sid, api.visitor, api.text))
    /\ acked' = [acked EXCEPT ![api.sid] = Append(@, <<"visitor", api.text>>)]
    /\ api' = From(ApiDone("chat_start", api.client_id, api.sid, 0,
                         [Ok EXCEPT !.session_id = api.sid]),
                 api.slug, api.authorization)
    /\ UNCHANGED <<caller, dbVars, chat_sessions, now, bot, user_data, outbox, keyboards,
                   tickVars>>

\* chat_message up to the status check (lines 183-192).
ChatMessageCheck(slug, authorization, session_id, message) ==
    /\ ApiFree
    /\ LET err     == Authenticate(slug, authorization)
           client  == get_client_by_slug(slug)
           session == get_chat_session(session_id)
           bad     == IF err.code # 0 THEN err ELSE chat_message_check(client, session)
       IN  IF bad.code # 0
           THEN api' = From(ApiDone("chat_message", client.id, session_id, 0, bad),
                            slug, authorization)
           ELSE /\ Room(session_id)
                /\ api' = [IdleApi EXCEPT !.kind = "chat_message", !.pc = "append",
                                          !.slug = slug,
                                          !.authorization = authorization,
                                          !.sid = session_id, !.text = message,
                                          !.visitor = session.visitor_id,
                                          !.client_id = client.id,
                                          !.dest = client.telegram_chat_id,
                                          !.session = session]
    /\ UNCHANGED <<caller, dbVars, chatVars, now, bot, user_data, notifVars, tickVars>>

\* chat_message from add_chat_message to the return (lines 194-199).
ChatMessageAppend ==
    /\ api.kind = "chat_message" /\ api.pc = "append"
    /\ chat_messages' = add_chat_message(api.sid, "visitor", api.text)
    /\ tasks' = Created(Task("followup", api.dest, api.sid,
                              IF api.session.visitor_id = "" THEN "Visitor"
                              ELSE api.session.visitor_id, api.text))
    /\ acked' = [acked EXCEPT ![api.sid] = Append(@, <<"visitor", api.text>>)]
    /\ api' = From(ApiDone("chat_message", api.client_id, api.sid, 0, Ok),
                 api.slug, api.authorization)
    /\ UNCHANGED <<caller, dbVars, chat_sessions, now, bot, user_data, outbox, keyboards,
                   tickVars>>

\* chat_poll up to the session lookup (lines 208-210).
ChatPollLookup(session_id, since) ==
    /\ ApiFree
    /\ LET session == get_chat_session(session_id)
           bad     == chat_poll_check(session)
       IN  IF bad.code # 0
           THEN api' = ApiDone("chat_poll", 0, session_id, since, bad)
           ELSE api' = [IdleApi EXCEPT !.kind = "chat_poll", !.pc = "read",
                                       !.sid = session_id, !.since = since,
                                       !.session = session]
    /\ UNCHANGED <<caller, dbVars, chatVars, now, bot, user_data, notifVars, tickVars>>

\* Mutant: the poll hands the messages over and deletes them.
ChatPollReadConsuming ==
    /\ api.kind = "chat_poll" /\ api.pc = "read"
    /\ api' = ApiDone("chat_poll", 0, api.sid, api.since,
                      chat_poll_response(api.session, api.sid, api.since))
    /\ chat_messages' = [chat_messages EXCEPT ![api.sid] = <<>>]
    /\ UNCHANGED <<caller, dbVars, chat_sessions, acked, now, bot, user_data, notifVars,
                   tickVars>>

\* chat_poll: get_chat_messages and the response (lines 212-216).
ChatPollRead ==
    /\ api.kind = "chat_poll" /\ api.pc = "read"
    /\ api' = ApiDone("chat_poll", 0, api.sid, api.since,
                      chat_poll_response(api.session, api.sid, api.since))
    /\ UNCHANGED <<caller, dbVars, chatVars, now, bot, user_data, notifVars, tickVars>>

\* chat_close up to the session lookup (lines 222-224).
ChatCloseLookup(session_id) ==
    /\ ApiFree
    /\ LET session == get_chat_session(session_id)
           bad     == chat_close_check(session)
       IN  IF bad.code # 0
           THEN api' = ApiDone("chat_close", 0, session_id, 0, bad)
           ELSE api' = [IdleApi EXCEPT !.kind = "chat_close", !.pc = "close",
                                       !.sid = session_id, !.session = session]
    /\ UNCHANGED <<caller, dbVars, chatVars, now, bot, user_data, notifVars, tickVars>>

\* chat_close: close_chat_session and the response (lines 225-226).
ChatCloseDo ==
    /\ api.kind = "chat_close" /\ api.pc = "close"
    /\ chat_sessions' = close_chat_session(api.sid)
    /\ api' = ApiDone("chat_close", 0, api.sid, 0, Ok)
    /\ UNCHANGED <<caller, dbVars, chat_messages, acked, now, bot, user_data, notifVars,
                   tickVars>>

----------------------------------------------------------------------------
\* Bot chat commands and buttons (src/bot.py:179-357).  A reply text is
\* named by what it says; "" means that the handler goes on.

\* Mutant: the owner's text replaces the messages of the session.
owner_reply_save_replacing(session_id, message) ==
    [chat_messages EXCEPT ![session_id] =
        <<[sender |-> "owner", message |-> message, sent_at |-> now]>>]

\* Mutant: the owner's text is saved as a visitor message.
owner_reply_save_as_visitor(session_id, message) ==
    add_chat_message(session_id, "visitor", message)

\* cmd_reply, line 206, and handle_reply_message, line 342.
owner_reply_save(session_id, message) ==
    add_chat_message(session_id, "owner", message)

\* cmd_reply, lines 195-204.
cmd_reply_check(client_id, session) ==
    IF ~session.exists THEN "not found"
    ELSE IF session.client_id # client_id THEN "not your store"
    ELSE IF session.status = "closed" THEN "already closed"
    ELSE ""

\* cmd_close, lines 227-233.
cmd_close_check(client_id, session) ==
    IF ~session.exists THEN "not found"
    ELSE IF session.client_id # client_id THEN "not your store"
    ELSE ""

\* handle_callback, "close:" branch, lines 281-284.
callback_close_check(session) ==
    IF ~session.exists THEN "not found" ELSE ""

\* handle_callback, "reply:" branch, lines 300-306.
callback_reply_check(session) ==
    IF ~session.exists THEN "not found"
    ELSE IF session.status = "closed" THEN "already closed"
    ELSE ""

\* handle_reply_message, lines 336-340.
handle_reply_check(session) ==
    IF ~session.exists \/ session.status = "closed" THEN "is closed" ELSE ""

\* The arguments of /reply and /close: none, an id, or an id and a message.
CommandArgs ==
    {<<>>} \cup {<<t>> : t \in TypedIds}
           \cup {<<t, m>> : t \in TypedIds, m \in Texts}

\* The inline keyboard of one delivered message: the chat that the message
\* was sent to and its callback data, "reply:SESSION_ID:VISITOR" and
\* "close:SESSION_ID" (src/notifier.py:92-97, 118-123; src/bot.py:346-351).
Keyboard(chat, sid, visitor) == [chat |-> chat, sid |-> sid, visitor |-> visitor]

\* The keyboards that can be tapped in a chat: those of the messages that
\* were delivered to it and that no Close tap has removed.
Buttons(chat) == {k \in BagToSet(keyboards) : k.chat = chat}

\* cmd_reply up to the status check (lines 181-204).
CmdReplyCheck(chat, args) ==
    /\ BotFree
    /\ IF get_client_by_chat_id(chat) = {}
       THEN bot' = BotDone("cmd_reply", chat, NoSid, "not linked")
       ELSE \E c \in get_client_by_chat_id(chat) :
            IF Len(args) < 2
            THEN bot' = BotDone("cmd_reply", chat, NoSid, "usage")
            ELSE LET sid     == Upper(args[1])
                     session == get_chat_session(sid)
                     bad     == cmd_reply_check(c, session)
                 IN  IF bad # ""
                     THEN bot' = BotDone("cmd_reply", chat, sid, bad)
                     ELSE /\ Room(sid)
                          /\ bot' = [IdleBot EXCEPT !.kind = "cmd_reply",
                                        !.pc = "append", !.chat = chat, !.sid = sid,
                                        !.text = args[2], !.client_id = c,
                                        !.session = session]
    /\ UNCHANGED <<caller, dbVars, chatVars, now, api, user_data, notifVars, tickVars>>

\* cmd_reply from add_chat_message to the confirmation (lines 206-213).
CmdReplyAppend ==
    /\ bot.kind = "cmd_reply" /\ bot.pc = "append"
    /\ chat_messages' = owner_reply_save(bot.sid, bot.text)
    /\ acked' = [acked EXCEPT ![bot.sid] = Append(@, <<"owner", bot.text>>)]
    /\ bot' = BotDone("cmd_reply", bot.chat, bot.sid, "replied")
    /\ UNCHANGED <<caller, dbVars, chat_sessions, now, api, user_data, notifVars, tickVars>>

\* cmd_close up to the ownership check (lines 218-233).
CmdCloseCheck(chat, args) ==
    /\ BotFree
    /\ IF get_client_by_chat_id(chat) = {}
       THEN bot' = BotDone("cmd_close", chat, NoSid, "not linked")
       ELSE \E c \in get_client_by_chat_id(chat) :
            IF Len(args) < 1
            THEN bot' = BotDone("cmd_close", chat, NoSid, "usage")
            ELSE LET sid     == Upper(args[1])
                     session == get_chat_session(sid)
                     bad     == cmd_close_check(c, session)
                 IN  IF bad # ""
                     THEN bot' = BotDone("cmd_close", chat, sid, bad)
                     ELSE bot' = [IdleBot EXCEPT !.kind = "cmd_close",
                                     !.pc = "close", !.chat = chat, !.sid = sid,
                                     !.client_id = c, !.session = session]
    /\ UNCHANGED <<caller, dbVars, chatVars, now, api, user_data, notifVars, tickVars>>

\* cmd_close: close_chat_session and the confirmation (lines 235-241).
CmdCloseDo ==
    /\ bot.kind = "cmd_close" /\ bot.pc = "close"
    /\ chat_sessions' = close_chat_session(bot.sid)
    /\ bot' = BotDone("cmd_close", bot.chat, bot.sid, "closed")
    /\ UNCHANGED <<caller, dbVars, chat_messages, acked, now, api, user_data, notifVars,
                   tickVars>>

\* handle_callback, "close:SESSION_ID", up to the lookup (lines 279-284).
CallbackCloseLookup(chat, session_id) ==
    /\ BotFree
    /\ LET session == get_chat_session(session_id)
           bad     == callback_close_check(session)
       IN  IF bad # ""
           THEN bot' = BotDone("button_close", chat, session_id, bad)
           ELSE bot' = [IdleBot EXCEPT !.kind = "button_close", !.pc = "close",
                                       !.chat = chat, !.sid = session_id,
                                       !.session = session]
    /\ UNCHANGED <<caller, dbVars, chatVars, now, api, user_data, notifVars, tickVars>>

\* handle_callback, "close:": close_chat_session (line 285).
CallbackCloseDo ==
    /\ bot.kind = "button_close" /\ bot.pc = "close"
    /\ chat_sessions' = close_chat_session(bot.sid)
    /\ bot' = [bot EXCEPT !.pc = "edit"]
    /\ UNCHANGED <<caller, dbVars, chat_messages, acked, now, api, user_data, notifVars,
                   tickVars>>

\* handle_callback, "close:", line 289: the awaited
\* edit_message_reply_markup removes the keyboard of the tapped message;
\* when it raises, the keyboard stays, the note is skipped and the
\* exception is dropped (lines 291-292).
CallbackCloseEdit(edited) ==
    /\ bot.kind = "button_close" /\ bot.pc = "edit"
    /\ IF edited
       THEN /\ \E k \in Buttons(bot.chat) :
                  /\ k.sid = bot.sid
                  /\ keyboards' = keyboards (-) SetToBag({k})
            /\ bot' = [bot EXCEPT !.pc = "note"]
       ELSE /\ keyboards' = keyboards
            /\ bot' = BotDone("button_close", bot.chat, bot.sid, "no reply")
    /\ UNCHANGED <<caller, dbVars, chatVars, now, api, user_data, tasks, outbox,
                   tickVars>>

\* handle_callback, "close:", line 290: the awaited reply_text sends the
\* note; when it raises, the exception is dropped (lines 291-292).
CallbackCloseNote(sent) ==
    /\ bot.kind = "button_close" /\ bot.pc = "note"
    /\ bot' = BotDone("button_close", bot.chat, bot.sid,
                      IF sent THEN "closed" ELSE "no reply")
    /\ UNCHANGED <<caller, dbVars, chatVars, now, api, user_data, notifVars, tickVars>>

\* handle_callback, "reply:SESSION_ID:VISITOR" (lines 295-317), for a tap
\* of user in chat.
CallbackReply(user, chat, session_id, visitor) ==
    /\ BotFree
    /\ LET session == get_chat_session(session_id)
           bad     == callback_reply_check(session)
       IN  IF bad # ""
           THEN /\ bot' = [BotDone("button_reply", chat, session_id, bad)
                             EXCEPT !.user = user]
                /\ UNCHANGED user_data
           ELSE /\ user_data' = [user_data EXCEPT ![user] =
                        [pending |-> TRUE, session_id |-> session_id,
                         visitor |-> visitor]]
                /\ bot' = [BotDone("button_reply", chat, session_id,
                                   "type your message") EXCEPT !.user = user]
    /\ UNCHANGED <<caller, dbVars, chatVars, now, api, notifVars, tickVars>>

\* handle_reply_message up to the status check (lines 325-337), for a text
\* of user in chat.  Telegram delivers no empty text, so the text is never
\* empty after strip().
HandleReplyMessageCheck(user, chat, text) ==
    /\ BotFree
    /\ LET pending == user_data[user]
           session == get_chat_session(pending.session_id)
           bad     == handle_reply_check(session)
       IN  IF ~pending.pending
           THEN bot' = [BotDone("typed_reply", chat, NoSid, "") EXCEPT !.user = user]
           ELSE IF bad # ""
           THEN bot' = [IdleBot EXCEPT !.kind = "typed_reply", !.pc = "refuse",
                           !.chat = chat, !.user = user,
                           !.sid = pending.session_id, !.session = session]
           ELSE /\ Room(pending.session_id)
                /\ bot' = [IdleBot EXCEPT !.kind = "typed_reply", !.pc = "append",
                              !.chat = chat, !.user = user,
                              !.sid = pending.session_id,
                              !.text = text, !.visitor = pending.visitor,
                              !.session = session]
    /\ UNCHANGED <<caller, dbVars, chatVars, now, api, user_data, notifVars, tickVars>>

\* handle_reply_message, lines 338-340: the refusal is sent and then the
\* pending reply is dropped; when reply_text raises, line 339 is not reached.
HandleReplyMessageRefuse(sent) ==
    /\ bot.kind = "typed_reply" /\ bot.pc = "refuse"
    /\ user_data' = IF sent THEN [user_data EXCEPT ![bot.user] = NoPending]
                    ELSE user_data
    /\ bot' = [BotDone("typed_reply", bot.chat, bot.sid,
                       IF sent THEN "is closed" ELSE "no reply")
                 EXCEPT !.user = bot.user]
    /\ UNCHANGED <<caller, dbVars, chatVars, now, api, notifVars, tickVars>>

\* handle_reply_message, lines 342-343: add_chat_message and the pop.
HandleReplyMessageAppend ==
    /\ bot.kind = "typed_reply" /\ bot.pc = "append"
    /\ chat_messages' = owner_reply_save(bot.sid, bot.text)
    /\ acked' = [acked EXCEPT ![bot.sid] = Append(@, <<"owner", bot.text>>)]
    /\ user_data' = [user_data EXCEPT ![bot.user] = NoPending]
    /\ bot' = [bot EXCEPT !.pc = "confirm"]
    /\ UNCHANGED <<caller, dbVars, chat_sessions, now, api, notifVars, tickVars>>

\* handle_reply_message, lines 346-356: the confirmation carries a keyboard
\* of its own, in the chat that the text was typed in.
HandleReplyMessageConfirm(sent) ==
    /\ bot.kind = "typed_reply" /\ bot.pc = "confirm"
    /\ keyboards' = IF sent
                    THEN keyboards (+) SetToBag({Keyboard(bot.chat, bot.sid,
                                                          bot.visitor)})
                    ELSE keyboards
    /\ bot' = [BotDone("typed_reply", bot.chat, bot.sid,
                       IF sent THEN "sent" ELSE "no reply")
                 EXCEPT !.user = bot.user]
    /\ UNCHANGED <<caller, dbVars, chatVars, now, api, user_data, tasks, outbox,
                   tickVars>>

\* The server clock advances.
Tick ==
    /\ now < MaxTime
    /\ now' = now + 1
    /\ UNCHANGED <<caller, dbVars, chatVars, procVars, notifVars, tickVars>>

----------------------------------------------------------------------------
\* Notification tasks (src/notifier.py:35-130): a task created by a route
\* runs later on the API's event loop, detached from the request.

\* _format_event (src/notifier.py:133-170) returns a text for these types only.
KnownEventTypes ==
    {"low_stock", "contact_form", "maintenance_on", "maintenance_off",
     "daily_summary"}

\* Mutant: an event of any type is sent.
SendsAnyType(task) ==
    task.dest # 0

\* _format_event evaluates payload.get(...) for these types (lines 135, 145,
\* 160): with payload None it raises AttributeError and the task ends.
FormatRaises(event_type, payload) ==
    /\ payload = "null"
    /\ event_type \in {"low_stock", "contact_form", "daily_summary"}

\* Whether the sender reaches Bot.send_message.
Sends(task) ==
    /\ task.dest # 0
    /\ task.kind = "event" =>
          /\ task.text \in KnownEventTypes
          /\ ~FormatRaises(task.text, task.payload)

Sent(task, ok) ==
    [dest |-> task.dest, kind |-> task.kind, ref |-> <<task.sid, task.text>>,
     ok |-> ok]

\* The task returns without sending, or its send succeeds.
RunTask(task) ==
    /\ BagIn(task, tasks)
    /\ tasks' = tasks (-) SetToBag({task})
    /\ outbox' = IF Sends(task) THEN Append(outbox, Sent(task, TRUE)) ELSE outbox
    /\ keyboards' = IF Sends(task) /\ task.kind \in {"new_chat", "followup"}
                    THEN keyboards (+) SetToBag({Keyboard(task.dest, task.sid,
                                                          task.visitor)})
                    ELSE keyboards
    /\ UNCHANGED <<caller, dbVars, chatVars, now, procVars, tickVars>>

\* The send raises; nobody awaits the task, so the exception is dropped.
RunTaskFails(task) ==
    /\ BagIn(task, tasks)
    /\ Sends(task)
    /\ tasks' = tasks (-) SetToBag({task})
    /\ outbox' = Append(outbox, Sent(task, FALSE))
    /\ UNCHANGED <<caller, dbVars, chatVars, now, procVars, keyboards, tickVars>>

----------------------------------------------------------------------------
\* Daily summary (src/bot.py:391-420, scheduled every 60 s at line 446).

SUMMARY_HOUR == 21

SUMMARY_MINUTE == 0

\* daily_summary_job runs on the bot's event loop; an execution is suspended
\* only while it awaits a send.  Two slots allow two executions to overlap.
JobSlots == {1, 2}

IdleJob ==
    [pc |-> "idle", today_key |-> 0, cur |-> 0, rest |-> <<>>,
     dests |-> [c \in ClientIds |-> 0]]

\* bot_data before the first tick: neither key is set.  summary_sent names
\* the set object it refers to (the day the set was created for).
NoBotData == [summary_last_day |-> 0, summary_sent |-> 0]

\* str(now.date()): the date key of a wall-clock reading.
DateKey(w) == w.day

\* Line 406: f"{client['id']}-{today_key}".
SummaryKey(client_id, today_key) == <<client_id, today_key>>

\* Mutant: only the first tick of the process installs a set.
NewDayOnFirstTick(today_key) == bot_data.summary_last_day = 0

\* Lines 395-397: a new date installs a fresh, empty set.
NewDay(today_key) == bot_data.summary_last_day # today_key

\* Mutant: the minute is not compared.
MatchingHour(w) == w.hour = SUMMARY_HOUR

\* Line 399.
MatchingMinute(w) == w.hour = SUMMARY_HOUR /\ w.minute = SUMMARY_MINUTE

\* Mutant: the loop does not consult the sent-set.
AlreadySentNever(sent_today, key) == FALSE

\* Lines 407-408.
AlreadySent(sent_today, key) == key \in sent_today

\* Lines 405-408: the clients that the loop passes over before its next send.
RECURSIVE SkipSent(_, _, _)
SkipSent(rest, sent_today, today_key) ==
    IF rest = <<>> THEN <<>>
    ELSE IF AlreadySent(sent_today, SummaryKey(Head(rest), today_key))
    THEN SkipSent(Tail(rest), sent_today, today_key)
    ELSE rest

\* The loop from its head to its next await (line 411) or its end.
LoopTo(rest, sent_today, today_key, dests) ==
    LET left == SkipSent(rest, sent_today, today_key)
    IN  IF left = <<>> THEN IdleJob
        ELSE [pc |-> "sending", today_key |-> today_key, cur |-> Head(left),
              rest |-> Tail(left), dests |-> dests]

\* Mutant: the key is recorded although the send raised.
AfterFailedSendMarked(sent_today, key) == sent_today \cup {key}

\* Lines 419-420: the except branch only logs.
AfterFailedSend(sent_today, key) == sent_today

\* Line 417.
AfterSend(sent_today, key) == sent_today \cup {key}

\* send_event_notification returns without sending when the client has no
\* telegram_chat_id (src/notifier.py:61-62).
\* The row is the one that the tick read (src/bot.py:403, 411).
Reaches(dest) == dest # 0

\* One call of Bot.send_message for a daily summary, to the destination in
\* the row that the tick read at its start.
SummarySend(dest, client_id, today_key, ok) ==
    [dest |-> dest, kind |-> "daily_summary",
     ref |-> SummaryKey(client_id, today_key), ok |-> ok]

\* The telegram_chat_id of the rows that get_all_active_clients returns.
ReadDestinations == [c \in ClientIds |-> clients[c].telegram_chat_id]

Sending == {j \in JobSlots : jobs[j].pc = "sending"}

\* The orders in which get_all_active_clients can return its rows.
ClientLists ==
    {l \in SeqsUpTo(ClientIds, Cardinality(get_all_active_clients)) :
        /\ Len(l) = Cardinality(get_all_active_clients)
        /\ {l[i] : i \in 1..Len(l)} = get_all_active_clients}

\* A tick, from its start to its first await or its return (lines 392-411).
TickStart(j) ==
    /\ jobs[j].pc = "idle"
    /\ LET today_key == DateKey(wall)
           ref       == IF NewDay(today_key) THEN today_key ELSE bot_data.summary_sent
           fresh     == IF NewDay(today_key) THEN [sets EXCEPT ![today_key] = {}]
                        ELSE sets
       IN  /\ bot_data' = [summary_last_day |-> today_key, summary_sent |-> ref]
           /\ sets' = fresh
           /\ IF ~MatchingMinute(wall)
              THEN UNCHANGED jobs
              ELSE /\ Len(outbox) + Cardinality(Sending)
                        + Cardinality(get_all_active_clients) <= MaxSends
                   /\ \E l \in ClientLists :
                         jobs' = [jobs EXCEPT ![j] = LoopTo(l, fresh[ref], today_key,
                                                          ReadDestinations)]
    /\ UNCHANGED <<caller, dbVars, chatVars, now, procVars, notifVars, wall>>

\* The awaited send returns: lines 411-418, then the loop to its next await.
SendDelivered(j) ==
    /\ jobs[j].pc = "sending"
    /\ LET key   == SummaryKey(jobs[j].cur, jobs[j].today_key)
           added == [sets EXCEPT ![jobs[j].today_key] = AfterSend(@, key)]
       IN  /\ outbox' = IF Reaches(jobs[j].dests[jobs[j].cur])
                         THEN Append(outbox,
                                     SummarySend(jobs[j].dests[jobs[j].cur],
                                                 jobs[j].cur, jobs[j].today_key, TRUE))
                         ELSE outbox
           /\ sets' = added
           /\ jobs' = [jobs EXCEPT ![j] =
                         LoopTo(jobs[j].rest, added[jobs[j].today_key],
                                jobs[j].today_key, jobs[j].dests)]
    /\ UNCHANGED <<caller, dbVars, chatVars, now, procVars, tasks, keyboards, wall,
                   bot_data>>

\* The awaited send raises: lines 419-420, then the loop to its next await.
SendFailed(j) ==
    /\ jobs[j].pc = "sending"
    /\ Reaches(jobs[j].dests[jobs[j].cur])
    /\ LET key  == SummaryKey(jobs[j].cur, jobs[j].today_key)
           kept == [sets EXCEPT ![jobs[j].today_key] = AfterFailedSend(@, key)]
       IN  /\ outbox' = Append(outbox,
                            SummarySend(jobs[j].dests[jobs[j].cur],
                                        jobs[j].cur, jobs[j].today_key, FALSE))
           /\ sets' = kept
           /\ jobs' = [jobs EXCEPT ![j] =
                         LoopTo(jobs[j].rest, kept[jobs[j].today_key],
                                jobs[j].today_key, jobs[j].dests)]
    /\ UNCHANGED <<caller, dbVars, chatVars, now, procVars, tasks, keyboards, wall,
                   bot_data>>

\* The wall clock of the bot's host moves on by one minute.
NextMinute(w) ==
    IF w.minute < 59 THEN [w EXCEPT !.minute = w.minute + 1]
    ELSE IF w.hour < 23 THEN [w EXCEPT !.hour = w.hour + 1, !.minute = 0]
    ELSE [day |-> w.day + 1, hour |-> 0, minute |-> 0]

MinutePasses ==
    /\ NextMinute(wall).day <= MaxDays
    /\ wall' = NextMinute(wall)
    /\ UNCHANGED <<caller, dbVars, chatVars, now, procVars, notifVars, bot_data, sets, jobs>>

----------------------------------------------------------------------------
\* The chat relay: both tenants provisioned and linked to their owner chats
\* (the state after "/start acme x" in chat 10 and "/start beta xx" in chat 20).

LinkedClients ==
    [c \in ClientIds |->
        [ProvisionedClients[c] EXCEPT
            !.telegram_chat_id = IF c = 1 THEN 10 ELSE IF c = 2 THEN 20 ELSE 0]]

LinkedChats ==
    {[client_id |-> 1, chat_id |-> 10, label |-> "owner chat", active |-> TRUE],
     [client_id |-> 2, chat_id |-> 20, label |-> "owner chat", active |-> TRUE]}

NoSettings == [k \in ClientIds \X {"maintenance"} |-> ""]

InitStores ==
    /\ orders = <<>>
    /\ events = <<>>
    /\ chat_sessions = [s \in SessionIds |-> NoSession]
    /\ chat_messages = [s \in SessionIds |-> <<>>]
    /\ acked = [s \in SessionIds |-> <<>>]
    /\ now = 1
    /\ api = IdleApi
    /\ bot = IdleBot
    /\ user_data = [u \in Users |-> NoPending]
    /\ tasks = EmptyBag
    /\ outbox = <<>>
    /\ keyboards = EmptyBag
    /\ bot_data = NoBotData
    /\ sets = [d \in 0..MaxDays |-> {}]
    /\ jobs = [j \in JobSlots |-> IdleJob]

Midnight == [day |-> 1, hour |-> 0, minute |-> 0]

\* Nobody but the storefront widgets calls the API.
NoCaller == <<"", <<>>>>

InitChat ==
    /\ caller = NoCaller
    /\ clients = LinkedClients
    /\ telegram_chats = LinkedChats
    /\ settings = NoSettings
    /\ InitStores
    /\ wall = Midnight

\* The widget of each storefront sends its own slug and secret.
WidgetLogins ==
    {<<"acme", <<"Bearer ", "x">>>>, <<"beta", <<"Bearer ", "x", "x">>>>}

\* The chats that owners write in: the one of acme and the one of beta.
OwnerChats == {10, 20}

\* The visitor chat: the storefront of acme starts the sessions, both
\* storefronts post, and one user writes in the owner chats.
NextChat ==
    \/ \E v \in Visitors, m \in Texts :
          ChatStartCreate("acme", <<"Bearer ", "x">>, v, m)
    \/ ChatStartSave
    \/ \E w \in WidgetLogins, t \in PathIds, m \in Texts :
          ChatMessageCheck(w[1], w[2], t, m)
    \/ ChatMessageAppend
    \/ \E t \in PathIds, since \in 0..MaxTime : ChatPollLookup(t, since)
    \/ ChatPollRead
    \/ \E t \in PathIds : ChatCloseLookup(t)
    \/ ChatCloseDo
    \/ \E chat \in OwnerChats, args \in CommandArgs : CmdReplyCheck(chat, args)
    \/ CmdReplyAppend
    \/ \E chat \in OwnerChats, args \in CommandArgs : CmdCloseCheck(chat, args)
    \/ CmdCloseDo
    \/ \E chat \in OwnerChats : \E k \in Buttons(chat) : CallbackCloseLookup(chat, k.sid)
    \/ CallbackCloseDo
    \/ \E edited \in BOOLEAN : CallbackCloseEdit(edited)
    \/ \E sent \in BOOLEAN : CallbackCloseNote(sent)
    \/ \E user \in {"u1"}, chat \in OwnerChats : \E k \in Buttons(chat) :
          CallbackReply(user, chat, k.sid, k.visitor)
    \/ \E user \in {"u1"}, chat \in OwnerChats, m \in Texts :
          HandleReplyMessageCheck(user, chat, m)
    \/ \E sent \in BOOLEAN : HandleReplyMessageRefuse(sent)
    \/ HandleReplyMessageAppend
    \/ \E sent \in BOOLEAN : HandleReplyMessageConfirm(sent)
    \/ \E task \in BagToSet(tasks) : RunTask(task)
    \/ \E task \in BagToSet(tasks) : RunTaskFails(task)
    \/ Tick

SpecChat == InitChat /\ [][NextChat]_vars

----------------------------------------------------------------------------
\* The summary job alone, with both tenants linked.

\* The bot is started at midnight or in the summary minute of day 1.
InitSummary ==
    /\ caller = NoCaller
    /\ clients = LinkedClients
    /\ telegram_chats = LinkedChats
    /\ settings = NoSettings
    /\ InitStores
    /\ wall \in {Midnight,
                 [day |-> 1, hour |-> SUMMARY_HOUR, minute |-> SUMMARY_MINUTE]}

\* Ticks that do not overlap: a tick starts when no execution is suspended.
NextSummary ==
    \/ (Sending = {} /\ TickStart(1))
    \/ SendDelivered(1)
    \/ SendFailed(1)
    \/ MinutePasses

SpecSummary == InitSummary /\ [][NextSummary]_vars

\* Ticks that may overlap: a tick may start while another awaits its send.
NextOverlap ==
    \/ \E j \in JobSlots : TickStart(j)
    \/ \E j \in JobSlots : SendDelivered(j)
    \/ \E j \in JobSlots : SendFailed(j)
    \/ MinutePasses

SpecOverlap == InitSummary /\ [][NextOverlap]_vars

----------------------------------------------------------------------------
\* Event ledger and settings (src/database.py:183-227, 300-309).

get_setting(client_id, key) == settings[<<client_id, key>>]

\* INSERT ... ON CONFLICT (client_id, key) DO UPDATE.
set_setting_in(table, client_id, key, value) ==
    [table EXCEPT ![<<client_id, key>>] = value]

\* Mutant: ON CONFLICT DO NOTHING, the first value written stays.
set_setting_keeping(client_id, key, value) ==
    IF settings[<<client_id, key>>] = "" THEN set_setting_in(settings, client_id, key, value)
    ELSE settings

set_setting(client_id, key, value) == set_setting_in(settings, client_id, key, value)

\* Mutant: the insert is not committed.
record_order_uncommitted(client_id, order_number, customer_name, total, item_count, received_at) ==
    orders

\* received_at 0 stands for an absent field: "received_at or now".
record_order(client_id, order_number, customer_name, total, item_count, received_at) ==
    Append(orders,
           [client_id |-> client_id, order_number |-> order_number,
            customer_name |-> customer_name, total |-> total,
            item_count |-> item_count, status |-> "pending",
            received_at |-> IF received_at = 0 THEN now ELSE received_at,
            created_at |-> now])

log_event(client_id, event_type) ==
    Append(events,
           [client_id |-> client_id, event_type |-> event_type, created_at |-> now])

\* Order bodies: totals are in hundredths (4250 is 42.50).
OrderBodies ==
    [order_number : {"A100"}, customer_name : {"Unknown"}, total : {4250},
     item_count : {2}, received_at : {0, MaxTime}]

EventTypes == {"low_stock", "refund"}

\* GenericEvent.payload is Optional[dict] (src/api.py:62): a dict or None.
Payloads == {"dict", "null"}

----------------------------------------------------------------------------
\* Tenant-scoped event routes (src/api.py:95-142).

\* receive_order (lines 101-114).
ReceiveOrder(slug, authorization, body) ==
    /\ ApiFree
    /\ LET err    == Authenticate(slug, authorization)
           client == get_client_by_slug(slug)
       IN  IF err.code # 0
           THEN /\ api' = From(ApiDone("order", 0, NoSid, 0, err), slug, authorization)
                /\ UNCHANGED <<orders, tasks>>
           ELSE /\ Len(orders) < MaxOrders
                /\ orders' = record_order(client.id, body.order_number,
                                          body.customer_name, body.total,
                                          body.item_count, body.received_at)
                /\ tasks' = Created(Task("order", client.telegram_chat_id,
                                          NoSid, "", body.order_number))
                /\ api' = From(ApiDone("order", client.id, NoSid, 0, Ok),
                             slug, authorization)
    /\ UNCHANGED <<caller, clients, telegram_chats, settings, events, chatVars, now, bot,
                   user_data, outbox, keyboards, tickVars>>

\* receive_generic_event (lines 123-129).
ReceiveGenericEvent(slug, authorization, event_type, payload) ==
    /\ ApiFree
    /\ LET err    == Authenticate(slug, authorization)
           client == get_client_by_slug(slug)
       IN  IF err.code # 0
           THEN /\ api' = From(ApiDone("generic", 0, NoSid, 0, err),
                                  slug, authorization)
                /\ UNCHANGED <<events, tasks>>
           ELSE /\ Len(events) < MaxEvents
                /\ events' = log_event(client.id, event_type)
                /\ tasks' = Created([Task("event", client.telegram_chat_id,
                                           NoSid, "", event_type)
                                        EXCEPT !.payload = payload])
                /\ api' = From(ApiDone("generic", client.id, NoSid, 0, Ok),
                             slug, authorization)
    /\ UNCHANGED <<caller, clients, telegram_chats, settings, orders, chatVars, now, bot,
                   user_data, outbox, keyboards, tickVars>>

\* get_maintenance (lines 137-142).
GetMaintenance(slug, authorization) ==
    /\ ApiFree
    /\ LET err    == Authenticate(slug, authorization)
           client == get_client_by_slug(slug)
           status == IF get_setting(client.id, "maintenance") = "" THEN "off"
                     ELSE get_setting(client.id, "maintenance")
       IN  IF err.code # 0
           THEN api' = From(ApiDone("maintenance", 0, NoSid, 0, err),
                            slug, authorization)
           ELSE api' = From(ApiDone("maintenance", client.id, NoSid, 0,
                                    [Ok EXCEPT !.maintenance = status]),
                            slug, authorization)
    /\ UNCHANGED <<caller, dbVars, chatVars, now, bot, user_data, notifVars, tickVars>>

\* cmd_maintenance (src/bot.py:149-172): args[0].lower().strip().
LowerWord(w) == IF w = "ON" THEN "on" ELSE IF w = "OFF" THEN "off" ELSE w

MaintenanceArgs == {<<>>, <<"on">>, <<"off">>, <<"ON">>, <<"maybe">>}

CmdMaintenance(chat, args) ==
    /\ BotFree
    /\ IF get_client_by_chat_id(chat) = {}
       THEN /\ bot' = BotDone("cmd_maintenance", chat, NoSid, "not linked")
            /\ UNCHANGED settings
       ELSE \E c \in get_client_by_chat_id(chat) :
            IF args = <<>>
            THEN /\ bot' = BotDone("cmd_maintenance", chat, NoSid,
                                   IF get_setting(c, "maintenance") = "on"
                                   THEN "maintenance is on" ELSE "maintenance is off")
                 /\ UNCHANGED settings
            ELSE IF LowerWord(args[1]) \notin {"on", "off"}
            THEN /\ bot' = BotDone("cmd_maintenance", chat, NoSid, "usage")
                 /\ UNCHANGED settings
            ELSE /\ settings' = set_setting(c, "maintenance", LowerWord(args[1]))
                 /\ bot' = BotDone("cmd_maintenance", chat, NoSid,
                                   IF LowerWord(args[1]) = "on"
                                   THEN "maintenance on" ELSE "maintenance off")
    /\ UNCHANGED <<caller, clients, telegram_chats, orders, events, chatVars, now, api,
                   user_data, notifVars, tickVars>>

----------------------------------------------------------------------------
\* The ingress gateway: tenant acme is linked to chat 10 and in maintenance
\* (after "/maintenance on"), tenant beta has no destination yet, tenant old
\* is disabled.

GatewayClients ==
    [c \in ClientIds |->
        [ProvisionedClients[c] EXCEPT
            !.telegram_chat_id = IF c = 1 THEN 10 ELSE 0]]

GatewayChats ==
    {[client_id |-> 1, chat_id |-> 10, label |-> "owner chat", active |-> TRUE]}

InitGateway ==
    /\ caller \in Slugs \X Headers
    /\ clients = GatewayClients
    /\ telegram_chats = GatewayChats
    /\ settings = set_setting_in(NoSettings, 1, "maintenance", "on")
    /\ InitStores
    /\ wall = Midnight

\* Requests come from the storefronts, with their own slug and secret, and
\* from the outside caller, with whatever slug and header it has.
Logins == WidgetLogins \cup {caller}

NextGateway ==
    \/ \E w \in Logins, body \in OrderBodies : ReceiveOrder(w[1], w[2], body)
    \/ \E w \in Logins, e \in EventTypes :
          ReceiveGenericEvent(w[1], w[2], e, "dict")
    \/ \E w \in Logins : GetMaintenance(w[1], w[2])
    \/ \E w \in Logins, v \in Visitors, m \in Texts :
          ChatStartCreate(w[1], w[2], v, m)
    \/ ChatStartSave
    \/ \E w \in Logins, t \in PathIds, m \in Texts :
          ChatMessageCheck(w[1], w[2], t, m)
    \/ ChatMessageAppend

SpecGateway == InitGateway /\ [][NextGateway]_vars

----------------------------------------------------------------------------
\* Properties of the chat relay (SpecChat).

Closed(sid) == get_chat_session(sid).status = "closed"

Occurrences(seq, x) == Cardinality({i \in 1..Len(seq) : seq[i] = x})

Posted(rows) == [i \in 1..Len(rows) |-> <<rows[i].sender, rows[i].message>>]

NonDecreasing(rows) ==
    \A i \in 1..Len(rows) : \A j \in i..Len(rows) : rows[i].sent_at <= rows[j].sent_at

\* What GET /chat/{sid}/poll?since=0 answers in the current state.
PollFromZero(sid) == chat_poll_response(get_chat_session(sid), sid, 0).messages

\* C1: after N posts have been acknowledged (first message of chat_start,
\* chat_message, /reply, typed reply), in any interleaving of the two
\* processes, a poll with since=0 returns exactly those N messages, each as
\* often as it was posted, in non-decreasing sent_at order.
C1_PollReturnsEveryAppend ==
    \A s \in SessionIds :
        LET got == PollFromZero(s)
        IN  /\ Len(got) = Len(acked[s])
            /\ \A p \in {"visitor", "owner"} \X Texts :
                  Occurrences(Posted(got), p) = Occurrences(acked[s], p)
            /\ NonDecreasing(got)

\* A since=0 poll has answered with a visitor and an owner message while
\* nothing was appended since.
C1_Witness ==
    /\ api.kind = "chat_poll" /\ api.pc = "done" /\ api.since = 0
    /\ api.resp.code = 200
    /\ Len(api.resp.messages) = 2
    /\ api.resp.messages = PollFromZero(api.sid)
    /\ \E i, j \in 1..2 : /\ api.resp.messages[i].sender = "visitor"
                          /\ api.resp.messages[j].sender = "owner"

ApiStarts(kind) == ApiFree /\ api' # api /\ api'.kind = kind

BotStarts(kind) == BotFree /\ bot' # bot /\ bot'.kind = kind

\* C2: a post that finds its session closed is refused and appends nothing:
\* chat_message answers 400 "Session is closed" (404 when the session is
\* another tenant's), /reply answers "already closed" ("not your store" for
\* another tenant's session), a typed reply is refused and answers
\* "is closed" when that answer can be sent.
C2_ClosedPostRejected ==
    [][ /\ (ApiStarts("chat_message") /\ Closed(api'.sid)) =>
              /\ api'.pc = "done"
              /\ chat_messages' = chat_messages
              /\ IF api'.client_id = get_chat_session(api'.sid).client_id
                 THEN api'.resp = HttpError(400, "Session is closed")
                 ELSE api'.resp.code \in {401, 404}
        /\ (BotStarts("cmd_reply") /\ Closed(bot'.sid)) =>
              /\ bot'.pc = "done"
              /\ chat_messages' = chat_messages
              /\ bot'.reply \in {"already closed", "not your store"}
              /\ get_client_by_chat_id(bot'.chat)
                    = {get_chat_session(bot'.sid).client_id}
                 => bot'.reply = "already closed"
        /\ (BotStarts("typed_reply") /\ user_data[bot'.user].pending
              /\ Closed(user_data[bot'.user].session_id)) =>
              /\ bot'.pc = "refuse"
              /\ chat_messages' = chat_messages
        /\ (bot.pc = "refuse" /\ bot' # bot) =>
              /\ bot'.pc = "done"
              /\ chat_messages' = chat_messages
              /\ bot'.reply \in {"is closed", "no reply"}
      ]_vars

\* Both a visitor post and an owner post were refused on a closed session
\* that holds messages.
C2_Witness ==
    /\ api.kind = "chat_message" /\ api.pc = "done"
    /\ api.resp = HttpError(400, "Session is closed")
    /\ bot.pc = "done" /\ bot.reply \in {"already closed", "is closed"}
    /\ bot.sid = api.sid
    /\ Closed(api.sid)
    /\ Len(chat_messages[api.sid]) >= 1

\* C3: the message list of a closed session never grows.
C3_NoAppendAfterClose ==
    [][ \A s \in SessionIds :
            Closed(s) => chat_messages'[s] = chat_messages[s] ]_vars

\* C4: closing a session that is already closed is accepted by all three
\* close operations, answers success (the Close button when its note can be
\* sent; it raises nothing otherwise), and changes neither the session nor
\* its messages.
C4_CloseIdempotent ==
    [][ /\ (ApiStarts("chat_close") /\ Closed(api'.sid)) => api'.pc = "close"
        /\ (BotStarts("button_close") /\ Closed(bot'.sid)) => bot'.pc = "close"
        /\ (BotStarts("cmd_close") /\ Closed(bot'.sid)
              /\ get_client_by_chat_id(bot'.chat)
                    = {get_chat_session(bot'.sid).client_id}) => bot'.pc = "close"
        /\ (api.pc = "close" /\ api' # api /\ Closed(api.sid)) =>
              /\ api'.pc = "done" /\ api'.resp = Ok
              /\ chat_sessions' = chat_sessions
              /\ chat_messages' = chat_messages
        /\ (bot.pc = "close" /\ bot' # bot /\ Closed(bot.sid)) =>
              /\ IF bot.kind = "button_close" THEN bot'.pc = "edit"
                 ELSE bot'.pc = "done" /\ bot'.reply = "closed"
              /\ chat_sessions' = chat_sessions
              /\ chat_messages' = chat_messages
        /\ (bot.pc = "edit" /\ bot' # bot) =>
              /\ \/ bot'.pc = "note"
                 \/ bot'.pc = "done" /\ bot'.reply = "no reply"
              /\ chat_sessions' = chat_sessions
              /\ chat_messages' = chat_messages
        /\ (bot.pc = "note" /\ bot' # bot) =>
              /\ bot'.pc = "done" /\ bot'.reply \in {"closed", "no reply"}
              /\ chat_sessions' = chat_sessions
              /\ chat_messages' = chat_messages
      ]_vars

\* The visitor and the owner have both closed the same session with success.
C4_Witness ==
    /\ api.kind = "chat_close" /\ api.pc = "done" /\ api.resp = Ok
    /\ bot.kind \in {"cmd_close", "button_close"} /\ bot.pc = "done"
    /\ bot.reply = "closed"
    /\ bot.sid = api.sid
    /\ Closed(api.sid)

\* C5: no session is visible without its first message.
C5_StartAtomic ==
    \A s \in SessionIds : chat_sessions[s].exists => Len(chat_messages[s]) >= 1

----------------------------------------------------------------------------
\* Properties of the daily summary (SpecSummary, SpecOverlap).

SummaryKeys == ClientIds \X (1..MaxDays)

\* How many sends of the summary with this key have succeeded in a log.
DeliveredIn(box, key) ==
    Cardinality({i \in 1..Len(box) :
                    /\ box[i].kind = "daily_summary"
                    /\ box[i].ref = key
                    /\ box[i].ok})

InMatchingMinute(day) == wall.day = day /\ MatchingMinute(wall)

\* C6: with ticks that do not overlap, whatever number of them runs in and
\* around the matching minute, no (tenant, date) summary is delivered more
\* than once.
C6_SummaryAtMostOnce ==
    \A key \in SummaryKeys : DeliveredIn(outbox, key) <= 1

\* Both tenants got the summary of day 1 and of day 2, and the bot is idle in
\* the matching minute of day 2, where further ticks run and send nothing.
C6_Witness ==
    /\ \A key \in {1, 2} \X {1, 2} : DeliveredIn(outbox, key) = 1
    /\ InMatchingMinute(2)
    /\ Sending = {}

\* C7: also with ticks that overlap, a send of a summary succeeds only when
\* no send of the same (tenant, date) summary has succeeded before.
C7_OverlapSendsOnce ==
    [][ \A key \in SummaryKeys :
            DeliveredIn(outbox', key) > DeliveredIn(outbox, key)
                => DeliveredIn(outbox, key) = 0 ]_vars

\* The clients of the rest of a loop whose key is not in the sent-set.
Unsent(rest, sent_today, today_key) ==
    {rest[i] : i \in {n \in 1..Len(rest) :
                        SummaryKey(rest[n], today_key) \notin sent_today}}

\* The clients that an execution is about to send to.
Attempts(job) ==
    IF job.pc = "sending" THEN {job.cur} \cup {job.rest[i] : i \in 1..Len(job.rest)}
    ELSE {}

\* C8: when a summary send fails, the sent-set stays as it was (the failed
\* key is not in it) and the same tick goes on to the next tenant that has
\* not got its summary; a tick that starts sending in the matching minute
\* attempts every active tenant whose key is not in the sent-set.
C8_FailedSendNotMarked ==
    [][ /\ (jobs[1].pc = "sending" /\ Len(outbox') = Len(outbox) + 1
                /\ ~outbox'[Len(outbox')].ok) =>
              LET day  == jobs[1].today_key
                  key  == SummaryKey(jobs[1].cur, day)
                  left == Unsent(jobs[1].rest, sets[day], day)
              IN  /\ sets' = sets
                  /\ key \notin sets'[day]
                  /\ IF left = {} THEN jobs'[1].pc = "idle"
                     ELSE /\ jobs'[1].pc = "sending"
                          /\ jobs'[1].cur \in left
                          /\ left \subseteq Attempts(jobs'[1])
        /\ (jobs[1].pc = "idle" /\ jobs'[1].pc = "sending") =>
              /\ MatchingMinute(wall)
              /\ {c \in get_all_active_clients :
                      SummaryKey(c, DateKey(wall)) \notin sets'[DateKey(wall)]}
                    \subseteq Attempts(jobs'[1])
      ]_vars

\* In the matching minute of day 1 the send to one tenant failed, the send to
\* the other tenant of the same tick succeeded, and a later tick delivered
\* the failed summary.
C8_Witness ==
    /\ InMatchingMinute(1)
    /\ Len(outbox) = 3
    /\ \E c \in {1, 2} :
          /\ outbox[1] = SummarySend(clients[c].telegram_chat_id, c, 1, FALSE)
          /\ outbox[2] = SummarySend(clients[3 - c].telegram_chat_id, 3 - c, 1, TRUE)
          /\ outbox[3] = SummarySend(clients[c].telegram_chat_id, c, 1, TRUE)

----------------------------------------------------------------------------
\* Properties of the ingress gateway (SpecGateway).

TenantRoutes == {"order", "generic", "maintenance", "chat_start", "chat_message"}

\* The request names an existing active tenant and presents its secret: the
\* token after the "Bearer " prefix, surrounding white space removed.
RightSecret(slug, authorization) ==
    \E c \in ClientIds :
        /\ clients[c].slug = slug
        /\ clients[c].active
        /\ StartsWithBearer(authorization)
        /\ Strip(Tail(authorization)) = clients[c].api_secret

TenantOf(slug) == CHOOSE c \in ClientIds : clients[c].slug = slug

AuthErrors ==
    {HttpError(404, "Client not found"),
     HttpError(401, "Missing Authorization header"),
     HttpError(401, "Invalid secret")}

StoresChange ==
    \/ orders' # orders
    \/ events' # events
    \/ chat_sessions' # chat_sessions
    \/ chat_messages' # chat_messages
    \/ settings' # settings
    \/ tasks' # tasks

\* C9: a tenant-scoped request without the right secret of an existing
\* active tenant ends with 404 or 401, changes no stored collection and
\* creates no notification task; with the right secret it is accepted: the
\* order or event is stored for that tenant, the maintenance status is
\* answered, the session is created, and a chat message is judged by its
\* session alone.  No step changes a collection or creates a task unless its
\* request presented the right secret.
C9_RejectedWithoutEffect ==
    [][ /\ StoresChange =>
              /\ api'.kind \in TenantRoutes
              /\ RightSecret(api'.slug, api'.authorization)
              /\ api'.resp \notin AuthErrors
        /\ \A kind \in TenantRoutes :
              ApiStarts(kind) =>
                IF ~RightSecret(api'.slug, api'.authorization)
                THEN /\ api'.pc = "done"
                     /\ api'.resp \in AuthErrors
                     /\ ~StoresChange
                ELSE LET c == TenantOf(api'.slug)
                     IN  CASE kind = "order" ->
                                /\ api'.resp = Ok
                                /\ Len(orders') = Len(orders) + 1
                                /\ orders'[Len(orders')].client_id = c
                           [] kind = "generic" ->
                                /\ api'.resp = Ok
                                /\ Len(events') = Len(events) + 1
                                /\ events'[Len(events')].client_id = c
                           [] kind = "maintenance" ->
                                /\ api'.resp.code = 200
                                /\ api'.resp.maintenance \in {"on", "off"}
                           [] kind = "chat_start" ->
                                /\ api'.pc = "save_first"
                                /\ chat_sessions'[api'.sid].exists
                                /\ chat_sessions'[api'.sid].client_id = c
                           [] kind = "chat_message" ->
                                \/ api'.pc = "append"
                                \/ /\ api'.pc = "done"
                                   /\ api'.resp \in
                                        {HttpError(404, "Session not found"),
                                         HttpError(400, "Session is closed")}
      ]_vars

\* An order with a wrong secret for an existing tenant was refused while the
\* ledger, the event log and a chat session hold accepted entries and their
\* notification tasks are pending.
C9_Witness ==
    /\ api.kind = "order" /\ api.pc = "done"
    /\ api.resp = HttpError(401, "Invalid secret")
    /\ ~RightSecret(api.slug, api.authorization)
    /\ Len(orders) = 1 /\ Len(events) = 1
    /\ \E s \in SessionIds : chat_sessions[s].exists /\ Len(chat_messages[s]) >= 1
    /\ tasks # EmptyBag

\* C10: the answer to a request that presents a secret with an unknown slug
\* is the answer that the same header gets with the slug of any existing
\* tenant whose secret it does not present.
C10_SameErrorForEitherPart ==
    (/\ api.pc = "done" /\ api.kind \in TenantRoutes
     /\ StartsWithBearer(api.authorization)
     /\ ~get_client_by_slug(api.slug).exists) =>
        \A slug \in Slugs :
            (get_client_by_slug(slug).exists
                /\ ~RightSecret(slug, api.authorization))
              => Authenticate(slug, api.authorization) = api.resp

----------------------------------------------------------------------------
\* Properties of the visitor-facing chat operations.

\* C11: a post that names an existing open session of the tenant in its path
\* and carries no Authorization header is cleared for its append, as a poll
\* or a close of that session is.
C11_SessionIdAlone ==
    [][ (/\ ApiStarts("chat_message")
         /\ api'.authorization = <<>>
         /\ get_chat_session(api'.sid).exists
         /\ get_chat_session(api'.sid).status = "open"
         /\ get_client_by_slug(api'.slug).id = get_chat_session(api'.sid).client_id)
            => api'.pc = "append" ]_vars

----------------------------------------------------------------------------
\* The owner interface: commands, taps on the keyboards of the delivered
\* messages, and plain text, of any user in any chat.  handle_callback reads
\* the session id from the callback data (src/bot.py:277-280, 295-297) and
\* handle_reply_message reads the pending reply of the user (line 325),
\* whatever chat the update comes from.

NextOwner ==
    \/ \E w \in WidgetLogins, v \in Visitors, m \in Texts :
          ChatStartCreate(w[1], w[2], v, m)
    \/ ChatStartSave
    \/ \E chat \in ChatIds, args \in CommandArgs : CmdReplyCheck(chat, args)
    \/ CmdReplyAppend
    \/ \E chat \in ChatIds, args \in CommandArgs : CmdCloseCheck(chat, args)
    \/ CmdCloseDo
    \/ \E chat \in ChatIds : \E k \in Buttons(chat) : CallbackCloseLookup(chat, k.sid)
    \/ CallbackCloseDo
    \/ \E edited \in BOOLEAN : CallbackCloseEdit(edited)
    \/ \E sent \in BOOLEAN : CallbackCloseNote(sent)
    \/ \E user \in Users, chat \in ChatIds : \E k \in Buttons(chat) :
          CallbackReply(user, chat, k.sid, k.visitor)
    \/ \E user \in Users, chat \in ChatIds, m \in Texts :
          HandleReplyMessageCheck(user, chat, m)
    \/ \E sent \in BOOLEAN : HandleReplyMessageRefuse(sent)
    \/ HandleReplyMessageAppend
    \/ \E sent \in BOOLEAN : HandleReplyMessageConfirm(sent)
    \/ \E task \in BagToSet(tasks) : RunTask(task)
    \/ \E task \in BagToSet(tasks) : RunTaskFails(task)

SpecOwner == InitChat /\ [][NextOwner]_vars

\* The chat of the bot handler in flight is linked to the tenant of session s.
FromOwnChat(s) == chat_sessions[s].client_id \in get_client_by_chat_id(bot.chat)

\* C12: a bot handler changes a session or its messages only when the chat
\* of its update is linked to the tenant of that session.
C12_OwnerActsOnOwnSessions ==
    [][ \A s \in SessionIds :
            (/\ bot.pc \in {"append", "close"}
             /\ bot' # bot
             /\ \/ chat_sessions'[s] # chat_sessions[s]
                \/ chat_messages'[s] # chat_messages[s])
                => FromOwnChat(s) ]_vars

----------------------------------------------------------------------------
\* Requests and their notification tasks: the storefronts send orders, events
\* and chat messages; each created task runs later and its send succeeds,
\* raises, or is skipped (no destination, unknown event type).

InitDispatch ==
    /\ caller = NoCaller
    /\ clients = GatewayClients
    /\ telegram_chats = GatewayChats
    /\ settings = NoSettings
    /\ InitStores
    /\ wall = Midnight

\* Every task that a route can create.
Tasks ==
    {[Task(k, d, sid, v, t) EXCEPT !.payload = p] :
        k \in {"order", "event", "new_chat", "followup"}, d \in {0} \cup ChatIds,
        sid \in {NoSid} \cup SessionIds, v \in {"", "Visitor"} \cup Visitors,
        t \in Texts \cup EventTypes \cup {"A100"}, p \in Payloads}

NextDispatch ==
    \/ \E w \in WidgetLogins, body \in OrderBodies : ReceiveOrder(w[1], w[2], body)
    \/ \E w \in WidgetLogins, e \in EventTypes, p \in Payloads :
          ReceiveGenericEvent(w[1], w[2], e, p)
    \/ \E w \in WidgetLogins, v \in Visitors, m \in Texts :
          ChatStartCreate(w[1], w[2], v, m)
    \/ ChatStartSave
    \/ \E w \in WidgetLogins, t \in PathIds, m \in Texts :
          ChatMessageCheck(w[1], w[2], t, m)
    \/ ChatMessageAppend
    \/ \E task \in Tasks : RunTask(task)
    \/ \E task \in Tasks : RunTaskFails(task)

SpecDispatch == InitDispatch /\ [][NextDispatch]_vars

\* The record that a notification is about is in the stores.
RecordedIn(ledger, log, sessions, messages, kind, sid, text) ==
    CASE kind = "order" -> \E i \in 1..Len(ledger) : ledger[i].order_number = text
      [] kind = "event" -> \E i \in 1..Len(log) : log[i].event_type = text
      [] kind \in {"new_chat", "followup"} ->
            /\ sid \in SessionIds
            /\ sessions[sid].exists
            /\ \E i \in 1..Len(messages[sid]) :
                  /\ messages[sid][i].sender = "visitor"
                  /\ messages[sid][i].message = text
      [] OTHER -> FALSE

RecordedAfter(kind, sid, text) ==
    RecordedIn(orders', events', chat_sessions', chat_messages', kind, sid, text)

TaskCreated == BagCardinality(tasks') > BagCardinality(tasks)

TaskRan == BagCardinality(tasks') < BagCardinality(tasks)

\* C13: every pending task and every send is about a record that is already
\* committed; the step that creates a task ends its request with success;
\* a step in which a task runs, its send succeeding or raising, changes no
\* order, event, session or message and no response.
C13_DispatchAfterCommit ==
    [][ /\ \A task \in BagToSet(tasks') : RecordedAfter(task.kind, task.sid, task.text)
        /\ \A i \in 1..Len(outbox') :
              RecordedAfter(outbox'[i].kind, outbox'[i].ref[1], outbox'[i].ref[2])
        /\ TaskCreated => (api'.pc = "done" /\ api'.resp.code = 200)
        /\ TaskRan =>
              /\ orders' = orders /\ events' = events
              /\ chat_sessions' = chat_sessions /\ chat_messages' = chat_messages
              /\ api' = api
      ]_vars

\* An order, an event and a chat start were answered with success, the send
\* for the order raised, and the order is in the ledger.
C13_Witness ==
    /\ \E i \in 1..Len(outbox) : outbox[i].kind = "order" /\ ~outbox[i].ok
    /\ \E i \in 1..Len(outbox) : outbox[i].kind = "new_chat" /\ outbox[i].ok
    /\ Len(orders) = 1 /\ Len(events) = 1
    /\ api.pc = "done" /\ api.resp.code = 200

\* A send for this notification has succeeded.
Delivered(kind, sid, text) ==
    \E i \in 1..Len(outbox) :
        /\ outbox[i].kind = kind
        /\ outbox[i].ref = <<sid, text>>
        /\ outbox[i].ok

Linked(client_id) == clients[client_id].telegram_chat_id # 0

\* C14: when no request is in flight and no task is left to run, so that
\* nothing will send any more, every accepted order, known-type event, chat
\* start and visitor follow-up of a tenant with a linked destination has been
\* delivered.
C14_DeliveredWhenQuiet ==
    (ApiFree /\ tasks = EmptyBag) =>
        /\ \A i \in 1..Len(orders) :
              Linked(orders[i].client_id)
                => Delivered("order", NoSid, orders[i].order_number)
        /\ \A i \in 1..Len(events) :
              (Linked(events[i].client_id) /\ events[i].event_type \in KnownEventTypes)
                => Delivered("event", NoSid, events[i].event_type)
        /\ \A sid \in SessionIds :
              (chat_sessions[sid].exists /\ Linked(chat_sessions[sid].client_id)) =>
                \A i \in 1..Len(chat_messages[sid]) :
                    chat_messages[sid][i].sender = "visitor" =>
                        \/ Delivered("new_chat", sid, chat_messages[sid][i].message)
                        \/ Delivered("followup", sid, chat_messages[sid][i].message)

----------------------------------------------------------------------------
\* Properties of the owner's replies (SpecOwner).

\* C15: the step in which /reply or a typed reply saves its text adds one
\* message tagged owner, with that text, at the end of the named session,
\* leaves every other session's messages alone, creates no notification task
\* and sends nothing to a linked destination.
C15_OwnerAppendOnly ==
    [][ (bot.pc = "append" /\ bot' # bot) =>
            LET before == chat_messages[bot.sid]
                after  == chat_messages'[bot.sid]
            IN  /\ Len(after) = Len(before) + 1
                /\ \A i \in 1..Len(before) : after[i] = before[i]
                /\ after[Len(after)].sender = "owner"
                /\ after[Len(after)].message = bot.text
                /\ \A s \in SessionIds \ {bot.sid} :
                      chat_messages'[s] = chat_messages[s]
                /\ chat_sessions' = chat_sessions
                /\ tasks' = tasks
                /\ outbox' = outbox ]_vars

\* The owner has replied to a session that a visitor started: the session
\* holds the visitor's and the owner's message, and the only task is the
\* new-chat notification.
C15_Witness ==
    /\ bot.pc = "done" /\ bot.reply \in {"replied", "sent"}
    /\ Len(chat_messages[bot.sid]) = 2
    /\ chat_messages[bot.sid][2].sender = "owner"
    /\ BagCardinality(tasks) = 1
    /\ \A task \in BagToSet(tasks) : task.kind = "new_chat"

----------------------------------------------------------------------------
\* Properties of the notification dispatch (SpecDispatch).

UnknownEventTypes == EventTypes \ KnownEventTypes

\* C16: a generic event of an unknown type is accepted with success and
\* logged, and no send for it is ever attempted: neither a delivered nor a
\* failed message of that type exists.
C16_UnknownEventDropped ==
    [][ /\ \A w \in WidgetLogins, e \in UnknownEventTypes, p \in Payloads :
              ReceiveGenericEvent(w[1], w[2], e, p) =>
                /\ api'.pc = "done" /\ api'.resp = Ok
                /\ Len(events') = Len(events) + 1
                /\ events'[Len(events')].event_type = e
                /\ events'[Len(events')].client_id = get_client_by_slug(w[1]).id
                /\ outbox' = outbox
        /\ \A i \in 1..Len(outbox') :
              outbox'[i].kind = "event" => outbox'[i].ref[2] \in KnownEventTypes
        /\ \A task \in BagToSet(tasks) :
              (task.kind = "event" /\ task.text \in UnknownEventTypes
                    /\ ~BagIn(task, tasks'))
                => outbox' = outbox
      ]_vars

\* The linked tenant's event of an unknown type is in the log, its request
\* was answered with success, its task has run, and nothing was sent.
C16_Witness ==
    /\ Len(events) = 1
    /\ events[1].event_type \in UnknownEventTypes
    /\ Linked(events[1].client_id)
    /\ api.kind = "generic" /\ api.pc = "done" /\ api.resp = Ok
    /\ tasks = EmptyBag
    /\ outbox = <<>>

----------------------------------------------------------------------------
\* Properties of polling (SpecChat).

\* What GET /chat/{sid}/poll?since=<created_at of the session> answers.
PollFromStart(sid) ==
    chat_poll_response(get_chat_session(sid), sid,
                       get_chat_session(sid).created_at).messages

\* C17: when a session holds the visitor's first message and then the
\* owner's reply, a poll with since equal to the session's created_at
\* returns these two messages in this order.
C17_PollSinceStart ==
    \A s \in SessionIds :
        (/\ get_chat_session(s).exists
         /\ Len(chat_messages[s]) = 2
         /\ chat_messages[s][1].sender = "visitor"
         /\ chat_messages[s][2].sender = "owner")
            => PollFromStart(s) = chat_messages[s]

ClosedAfter(sid) ==
    /\ sid \in SessionIds
    /\ chat_sessions'[sid].exists
    /\ chat_sessions'[sid].status = "closed"

\* C18: a closed session stays closed whatever start, post, close or owner
\* operation follows; a poll reports closed only for a session that is
\* closed, and a poll that finds its session closed reports closed.
C18_ClosedIsTerminal ==
    [][ /\ \A s \in SessionIds : Closed(s) => ClosedAfter(s)
        /\ (ApiStarts("chat_poll") /\ Closed(api'.sid)) =>
              /\ api'.pc = "read"
              /\ api'.session.status = "closed"
        /\ (api.kind = "chat_poll" /\ api.pc = "read" /\ api' # api) =>
              /\ api'.pc = "done"
              /\ api.session.status = "closed" => api'.resp.status = "closed"
              /\ api'.resp.status = "closed" => ClosedAfter(api'.sid)
      ]_vars

\* A poll has reported closed for a session that holds two messages and
\* that the owner tried to reply to or close after it was closed.
C18_Witness ==
    /\ api.kind = "chat_poll" /\ api.pc = "done"
    /\ api.resp.status = "closed"
    /\ Len(chat_messages[api.sid]) = 2
    /\ bot.pc = "done" /\ bot.sid = api.sid
    /\ bot.reply \in {"already closed", "is closed", "closed"}

NotFound == HttpError(404, "Session not found")

ChatUnchanged == chat_sessions' = chat_sessions /\ chat_messages' = chat_messages

\* C19: a post, poll or close that names no existing session, and a post
\* that names a session of another tenant than the one of its slug, ends
\* with 404 "Session not found" and changes no session and no message.
C19_UnknownSessionNotFound ==
    [][ /\ (ApiStarts("chat_message")
               /\ \/ ~get_chat_session(api'.sid).exists
                  \/ get_chat_session(api'.sid).client_id
                        # get_client_by_slug(api'.slug).id) =>
              (api'.pc = "done" /\ api'.resp = NotFound /\ ChatUnchanged)
        /\ (ApiStarts("chat_poll") /\ ~get_chat_session(api'.sid).exists) =>
              (api'.pc = "done" /\ api'.resp = NotFound /\ ChatUnchanged)
        /\ (ApiStarts("chat_close") /\ ~get_chat_session(api'.sid).exists) =>
              (api'.pc = "done" /\ api'.resp = NotFound /\ ChatUnchanged)
      ]_vars

\* A post with another tenant's slug and secret to an open session that
\* holds a message was answered 404.
C19_Witness ==
    /\ api.kind = "chat_message" /\ api.pc = "done" /\ api.resp = NotFound
    /\ get_chat_session(api.sid).exists
    /\ get_chat_session(api.sid).status = "open"
    /\ get_chat_session(api.sid).client_id # get_client_by_slug(api.slug).id
    /\ Len(chat_messages[api.sid]) >= 1

IsPrefix(a, b) == Len(a) <= Len(b) /\ \A i \in 1..Len(a) : a[i] = b[i]

\* What a poll with since=0 reads from a message store (src/api.py:212).
PollOf(messages, sid) == SortBySentAt(SentAfter(messages[sid], 0))

\* C20: in every step, what a since=0 poll of a session reads before the
\* step is a prefix of what it reads after it: sender, text and sent_at of
\* every message stay as they are and stay in place.
C20_PollsGrowByAppending ==
    [][ \A s \in SessionIds :
            /\ PollOf(chat_messages, s) = PollFromZero(s)
            /\ IsPrefix(PollOf(chat_messages, s), PollOf(chat_messages', s)) ]_vars

\* Two polls with since=0 of one session: the one in flight read the session
\* when it held fewer messages than the session holds now, written in
\* different seconds by the visitor and the owner.
C20_Witness ==
    /\ api.kind = "chat_poll" /\ api.pc = "done" /\ api.since = 0
    /\ Len(api.resp.messages) = 1
    /\ Len(PollFromZero(api.sid)) = 2
    /\ IsPrefix(api.resp.messages, PollFromZero(api.sid))
    /\ PollFromZero(api.sid)[1].sent_at < PollFromZero(api.sid)[2].sent_at
    /\ PollFromZero(api.sid)[2].sender = "owner"

----------------------------------------------------------------------------
\* Linking a chat to a tenant (src/bot.py:67-118, src/database.py:154-167).

\* Mutant: a plain INSERT, without the ON CONFLICT clause.
set_client_chat_inserting(client_id, chat_id, label) ==
    telegram_chats \cup
        {[client_id |-> client_id, chat_id |-> chat_id, label |-> label,
          active |-> TRUE]}

\* set_client_chat, lines 158-164: INSERT ... ON CONFLICT (client_id, chat_id)
\* DO UPDATE SET active = TRUE, label = EXCLUDED.label.
set_client_chat(client_id, chat_id, label) ==
    {l \in telegram_chats : ~(l.client_id = client_id /\ l.chat_id = chat_id)}
        \cup {[client_id |-> client_id, chat_id |-> chat_id, label |-> label,
                active |-> TRUE]}

\* set_client_chat, line 165: UPDATE clients SET telegram_chat_id.
set_client_chat_destination(client_id, chat_id) ==
    [clients EXCEPT ![client_id].telegram_chat_id = chat_id]

\* args[0].lower().strip() of /start.
LowerSlug(w) == IF w = "ACME" THEN "acme" ELSE w

\* Mutant: /start does not compare the secret.
cmd_start_check_any_secret(client, secret) ==
    IF ~client.exists THEN "no store" ELSE ""

\* cmd_start, lines 96-104.
cmd_start_check(client, secret) ==
    IF ~client.exists THEN "no store"
    ELSE IF secret # client.api_secret THEN "wrong secret"
    ELSE ""

\* context.args of /start: a slug and a secret, the secret as a sequence of
\* header atoms.  The owners of acme and of the new store send them.
LinkArgs ==
    {<<>>, <<"acme">>}
        \cup {<<slug, secret>> :
                 slug \in {"acme", "ACME", "old", "nope", "new"},
                 secret \in {<<"x">>, <<"x", "x">>, <<"x", " ">>}}

\* The chats /start is sent from.
LinkChats == {10, 20}

\* chat.title or chat.username or "owner chat".
Labels == {"owner chat", "Shop"}

\* cmd_start (lines 67-118).
CmdStart(chat, args, label) ==
    /\ BotFree
    /\ IF args = <<>>
       THEN /\ bot' = BotDone("cmd_start", chat, NoSid,
                              IF get_client_by_chat_id(chat) # {} THEN "linked to"
                              ELSE "welcome")
            /\ UNCHANGED <<clients, telegram_chats>>
       ELSE IF Len(args) < 2
       THEN /\ bot' = BotDone("cmd_start", chat, NoSid, "usage")
            /\ UNCHANGED <<clients, telegram_chats>>
       ELSE LET client == get_client_by_slug(LowerSlug(args[1]))
                bad    == cmd_start_check(client, Strip(args[2]))
            IN  IF bad # ""
                THEN /\ bot' = BotDone("cmd_start", chat, NoSid, bad)
                     /\ UNCHANGED <<clients, telegram_chats>>
                ELSE /\ telegram_chats' = set_client_chat(client.id, chat, label)
                     /\ clients' = set_client_chat_destination(client.id, chat)
                     /\ bot' = [BotDone("cmd_start", chat, NoSid, "linked")
                                   EXCEPT !.client_id = client.id]
    /\ UNCHANGED <<caller, settings, orders, events, chatVars, now, api, user_data,
                   notifVars, tickVars>>

\* create_client (src/database.py:138-151): a row with the next id of the
\* sequence, no telegram_chat_id, active by default.
create_client(slug, name, api_secret) ==
    LET id == CHOOSE c \in ClientIds :
                  /\ ~clients[c].exists
                  /\ \A d \in ClientIds : d < c => clients[d].exists
    IN  [clients EXCEPT ![id] =
            [exists |-> TRUE, id |-> id, slug |-> slug, name |-> name,
             api_secret |-> api_secret, telegram_chat_id |-> 0, active |-> TRUE]]

\* The slugs and secrets that setup_client.py is run with: a new store, and
\* a slug that a store has.
NewClients == {<<"new", "New", <<"x">>>>, <<"acme", "Acme", <<"x", "x">>>>}

\* setup_client.main (src/setup_client.py:23-29) calls create_client.  The
\* slug is UNIQUE (src/database.py:38): the INSERT of a slug that a row has
\* raises and adds no row.
CreateClient(slug, name, api_secret) ==
    /\ \E c \in ClientIds : ~clients[c].exists
    /\ IF \E c \in ClientIds : clients[c].exists /\ clients[c].slug = slug
       THEN UNCHANGED clients
       ELSE clients' = create_client(slug, name, api_secret)
    /\ UNCHANGED <<caller, telegram_chats, settings, orders, events, chatVars, now,
                   procVars, notifVars, tickVars>>

\* The tenants as provisioned, no chat linked yet.
InitLink ==
    /\ caller = NoCaller
    /\ clients = ProvisionedClients
    /\ telegram_chats = {}
    /\ settings = NoSettings
    /\ InitStores
    /\ wall = Midnight

NextLink ==
    \/ \E chat \in LinkChats, args \in LinkArgs, label \in Labels :
          CmdStart(chat, args, label)
    \/ \E n \in NewClients : CreateClient(n[1], n[2], n[3])

SpecLink == InitLink /\ [][NextLink]_vars

\* The link rows of a (tenant, destination) pair.
Links(table, client_id, chat_id) ==
    {l \in table : l.client_id = client_id /\ l.chat_id = chat_id}

\* The /start arguments name an active tenant and carry its secret.
RightLink(args) ==
    /\ Len(args) >= 2
    /\ \E c \in ClientIds :
          /\ clients[c].active
          /\ clients[c].slug = LowerSlug(args[1])
          /\ clients[c].api_secret = Strip(args[2])

\* C21: after a link with the right secret, whether or not the pair was
\* linked before, the (tenant, destination) pair has exactly one link row,
\* active and with the label of this call, the tenant's destination is this
\* chat, and the rows of every other pair are as before.
C21_LinkIdempotent ==
    [][ \A chat \in LinkChats, args \in LinkArgs, label \in Labels :
            (RightLink(args) /\ CmdStart(chat, args, label)) =>
                LET c == TenantOf(LowerSlug(args[1]))
                IN  /\ Links(telegram_chats', c, chat)
                          = {[client_id |-> c, chat_id |-> chat, label |-> label,
                              active |-> TRUE]}
                    /\ clients'[c].telegram_chat_id = chat
                    /\ telegram_chats' \ Links(telegram_chats', c, chat)
                          = telegram_chats \ Links(telegram_chats, c, chat)
                    /\ bot'.reply = "linked" ]_vars

\* Tenant acme is linked to chats 10 and 20; the latest link, from chat 10,
\* carried the label "Shop", and chat 10 is the tenant's destination.
C21_Witness ==
    /\ bot.kind = "cmd_start" /\ bot.reply = "linked" /\ bot.chat = 10
    /\ bot.client_id = 1
    /\ Links(telegram_chats, 1, 10)
          = {[client_id |-> 1, chat_id |-> 10, label |-> "Shop", active |-> TRUE]}
    /\ Links(telegram_chats, 1, 20) # {}
    /\ clients[1].telegram_chat_id = 10

\* C22: a /start whose arguments do not name an active tenant with its
\* secret changes no link row and no tenant; every step that changes a link
\* row or a tenant's destination is a /start with the right secret, and it
\* binds the chat of that command to the tenant of that secret only.
C22_LinkNeedsSecret ==
    [][ /\ \A chat \in LinkChats, args \in LinkArgs, label \in Labels :
              (~RightLink(args) /\ CmdStart(chat, args, label)) =>
                  /\ telegram_chats' = telegram_chats
                  /\ clients' = clients
                  /\ bot'.reply # "linked"
        /\ (\/ telegram_chats' # telegram_chats
             \/ \E c \in ClientIds :
                   clients'[c].telegram_chat_id # clients[c].telegram_chat_id) =>
              /\ bot'.kind = "cmd_start" /\ bot'.reply = "linked"
              /\ \E args \in LinkArgs :
                    /\ RightLink(args)
                    /\ bot'.client_id = TenantOf(LowerSlug(args[1]))
              /\ \A c \in ClientIds \ {bot'.client_id} : clients'[c] = clients[c]
              /\ \A l \in telegram_chats' \ telegram_chats :
                    l.client_id = bot'.client_id /\ l.chat_id = bot'.chat
      ]_vars

\* A /start with a wrong secret was refused in chat 20 while tenant acme is
\* linked to chat 10; chat 20 has no link.
C22_Witness ==
    /\ bot.kind = "cmd_start" /\ bot.reply = "wrong secret" /\ bot.chat = 20
    /\ clients[1].telegram_chat_id = 10
    /\ Links(telegram_chats, 1, 10) # {}
    /\ \A l \in telegram_chats : l.chat_id # 20

----------------------------------------------------------------------------
\* Order aggregates (src/database.py:230-278, src/bot.py:121-139).

\* Seconds in a day, as written in the three queries.
Day == 86400

\* The default TIMEZONE, "Asia/Kolkata" (src/config.py:52), is UTC+05:30.
UtcOffset == 19800

RECURSIVE SumTotals(_)
SumTotals(rows) ==
    IF rows = <<>> THEN 0 ELSE Head(rows).total + SumTotals(Tail(rows))

\* SELECT COUNT(*) AS order_count, COALESCE(SUM(total), 0) AS revenue
\* FROM orders WHERE client_id = %s AND received_at >= %s
\* AND status != 'cancelled'.
order_stats(client_id, start) ==
    LET rows == SelectSeq(orders,
                          LAMBDA o : /\ o.client_id = client_id
                                     /\ o.received_at >= start
                                     /\ o.status # "cancelled")
    IN  [order_count |-> Len(rows), revenue |-> SumTotals(rows)]

\* int(time.time()) // 86400 * 86400.
today_start(t) == (t \div Day) * Day

\* int(time.time()) - (7 * 86400).
week_start(t) == t - (7 * Day)

\* int(time.time()) - (30 * 86400).
month_start(t) == t - (30 * Day)

get_today_stats(client_id) == order_stats(client_id, today_start(now))

get_week_stats(client_id) == order_stats(client_id, week_start(now))

get_month_stats(client_id) == order_stats(client_id, month_start(now))

\* /today, /week and /month (src/bot.py:121-139): the reply is the text of
\* the aggregate, kept here as the aggregate itself.
CmdToday(chat) ==
    /\ BotFree
    /\ IF get_client_by_chat_id(chat) = {}
       THEN bot' = BotDone("cmd_today", chat, NoSid, "not linked")
       ELSE \E c \in get_client_by_chat_id(chat) :
              bot' = [BotDone("cmd_today", chat, NoSid, "stats")
                        EXCEPT !.client_id = c, !.text = get_today_stats(c)]
    /\ UNCHANGED <<caller, dbVars, chatVars, now, api, user_data, notifVars, tickVars>>

CmdWeek(chat) ==
    /\ BotFree
    /\ IF get_client_by_chat_id(chat) = {}
       THEN bot' = BotDone("cmd_week", chat, NoSid, "not linked")
       ELSE \E c \in get_client_by_chat_id(chat) :
              bot' = [BotDone("cmd_week", chat, NoSid, "stats")
                        EXCEPT !.client_id = c, !.text = get_week_stats(c)]
    /\ UNCHANGED <<caller, dbVars, chatVars, now, api, user_data, notifVars, tickVars>>

CmdMonth(chat) ==
    /\ BotFree
    /\ IF get_client_by_chat_id(chat) = {}
       THEN bot' = BotDone("cmd_month", chat, NoSid, "not linked")
       ELSE \E c \in get_client_by_chat_id(chat) :
              bot' = [BotDone("cmd_month", chat, NoSid, "stats")
                        EXCEPT !.client_id = c, !.text = get_month_stats(c)]
    /\ UNCHANGED <<caller, dbVars, chatVars, now, api, user_data, notifVars, tickVars>>

\* A UTC midnight; 03:00 local time of the same date is Epoch - 9000.
Epoch == 20000 * Day

\* Readings of time.time() at which requests and commands arrive.
StatsInstants ==
    {Epoch - 9000, Epoch + 1800, Epoch + 70000,
     Epoch - 9000 + 7 * Day, Epoch - 8999 + 7 * Day,
     Epoch - 9000 + 30 * Day, Epoch - 8999 + 30 * Day}

\* Order bodies with no received_at, a backdated one and a future one.
StatsBodies ==
    [order_number : {"A100"}, customer_name : {"Unknown"}, total : {4250},
     item_count : {2}, received_at : {0, Epoch - 40 * Day, Epoch + 40 * Day}]

\* The server clock moves on to a later reading.
AdvanceClock ==
    /\ \E t \in StatsInstants : t > now /\ now' = t
    /\ UNCHANGED <<caller, dbVars, chatVars, procVars, notifVars, tickVars>>

InitStats ==
    /\ caller = NoCaller
    /\ clients = LinkedClients
    /\ telegram_chats = LinkedChats
    /\ settings = NoSettings
    /\ orders = <<>>
    /\ events = <<>>
    /\ chat_sessions = [s \in SessionIds |-> NoSession]
    /\ chat_messages = [s \in SessionIds |-> <<>>]
    /\ acked = [s \in SessionIds |-> <<>>]
    /\ now = Epoch - 9000
    /\ api = IdleApi
    /\ bot = IdleBot
    /\ user_data = [u \in Users |-> NoPending]
    /\ tasks = EmptyBag
    /\ outbox = <<>>
    /\ keyboards = EmptyBag
    /\ bot_data = NoBotData
    /\ sets = [d \in 0..MaxDays |-> {}]
    /\ jobs = [j \in JobSlots |-> IdleJob]
    /\ wall = Midnight

NextStats ==
    \/ \E w \in WidgetLogins, body \in StatsBodies : ReceiveOrder(w[1], w[2], body)
    \/ \E chat \in ChatIds : CmdToday(chat)
    \/ \E chat \in ChatIds : CmdWeek(chat)
    \/ \E chat \in ChatIds : CmdMonth(chat)
    \/ AdvanceClock

SpecStats == InitStats /\ [][NextStats]_vars

\* The three window starts at the current reading of the clock.
WindowStarts == {today_start(now), week_start(now), month_start(now)}

\* C23: an order is inside a window exactly when its server-assigned
\* created_at is, whatever received_at its caller supplied.
C23_CountedByRecordTime ==
    \A i \in DOMAIN orders, start \in WindowStarts :
        (orders[i].received_at >= start) <=> (orders[i].created_at >= start)

\* The aggregate over the rows recorded (created_at) since start.
recorded_stats(client_id, start) ==
    LET rows == SelectSeq(orders,
                          LAMBDA o : /\ o.client_id = client_id
                                     /\ o.created_at >= start
                                     /\ o.status # "cancelled")
    IN  [order_count |-> Len(rows), revenue |-> SumTotals(rows)]

\* C24: a tenant's today aggregate is the count and the sum of the totals of
\* the tenant's own non-cancelled orders recorded today, and a /today reply
\* shows that aggregate.
C24_TodayCountsAccepted ==
    /\ \A c \in ClientIds :
          get_today_stats(c) = recorded_stats(c, today_start(now))
    /\ (bot.kind = "cmd_today" /\ bot.reply = "stats") =>
          bot.text = recorded_stats(bot.client_id, today_start(now))

\* Midnight, in the configured timezone, of the local day that holds t.
LocalDayStart(t) == ((t + UtcOffset) \div Day) * Day - UtcOffset

\* C25: for orders submitted without a timestamp, today holds the orders
\* since the local-day boundary, week those of the trailing 7 x 24 hours and
\* month those of the trailing 30 x 24 hours.
C25_Windows ==
    \A c \in ClientIds :
        (\A i \in DOMAIN orders : orders[i].received_at = orders[i].created_at) =>
            /\ get_today_stats(c) = recorded_stats(c, LocalDayStart(now))
            /\ get_week_stats(c) = recorded_stats(c, now - 7 * 24 * 3600)
            /\ get_month_stats(c) = recorded_stats(c, now - 30 * 24 * 3600)

----------------------------------------------------------------------------
\* The maintenance flag (src/bot.py:149-172, src/api.py:132-142).

NextSettings ==
    \/ \E chat \in ChatIds, args \in MaintenanceArgs : CmdMaintenance(chat, args)
    \/ \E w \in WidgetLogins : GetMaintenance(w[1], w[2])

SpecSettings == InitChat /\ [][NextSettings]_vars

\* C26: the flag of a tenant is unset, "on" or "off"; /maintenance on|off
\* from a linked chat replaces the value of that tenant's flag alone, any
\* other /maintenance leaves every setting as it was; a read leaves the
\* settings alone and returns the stored value, "off" while none is stored.
C26_SettingsLastWriteWins ==
    [][ /\ \A c \in ClientIds : settings'[<<c, "maintenance">>] \in {"", "on", "off"}
        /\ \A chat \in ChatIds, args \in MaintenanceArgs :
              CmdMaintenance(chat, args) =>
                  IF /\ get_client_by_chat_id(chat) # {}
                     /\ args # <<>>
                     /\ LowerWord(args[1]) \in {"on", "off"}
                  THEN \E c \in get_client_by_chat_id(chat) :
                         settings' = [settings EXCEPT ![<<c, "maintenance">>]
                                                          = LowerWord(args[1])]
                  ELSE settings' = settings
        /\ \A w \in WidgetLogins :
              GetMaintenance(w[1], w[2]) =>
                  /\ settings' = settings
                  /\ api'.resp.maintenance
                        = IF settings[<<api'.client_id, "maintenance">>] = "" THEN "off"
                          ELSE settings[<<api'.client_id, "maintenance">>]
      ]_vars

\* Tenant acme's flag was read as "on" and then set to "off" from its chat,
\* while tenant beta's flag is still unset.
C26_Witness ==
    /\ api.kind = "maintenance" /\ api.client_id = 1 /\ api.resp.maintenance = "on"
    /\ bot.kind = "cmd_maintenance" /\ bot.reply = "maintenance off"
    /\ bot.chat = 10
    /\ settings[<<1, "maintenance">>] = "off"
    /\ settings[<<2, "maintenance">>] = ""

----------------------------------------------------------------------------
\* Properties of the daily summary's bookkeeping (SpecOverlap, SpecSummary).

\* C27: a tick leaves summary_last_day at the date key of its clock reading,
\* and with an empty sent-set when that date is new, whatever the minute; at
\* all times the sent-set that bot_data refers to holds keys of the date in
\* summary_last_day only.
C27_SentSetOfToday ==
    [][ /\ \A j \in JobSlots :
              TickStart(j) =>
                  /\ bot_data'.summary_last_day = DateKey(wall)
                  /\ bot_data.summary_last_day # DateKey(wall)
                        => sets'[bot_data'.summary_sent] = {}
        /\ \A key \in sets'[bot_data'.summary_sent] :
              key[2] = bot_data'.summary_last_day
      ]_vars

\* The first tick of day 2 ran outside the matching minute: the sent-set of
\* bot_data is empty, while both summaries of day 1 had been recorded.
C27_Witness ==
    /\ wall.day = 2 /\ wall.hour < SUMMARY_HOUR
    /\ bot_data.summary_last_day = 2
    /\ sets[bot_data.summary_sent] = {}
    /\ sets[1] = {SummaryKey(1, 1), SummaryKey(2, 1)}

\* The wall clock is past the matching minute of the day.
PastSummaryTime(day) ==
    \/ wall.day > day
    \/ /\ wall.day = day
       /\ \/ wall.hour > SUMMARY_HOUR
          \/ wall.hour = SUMMARY_HOUR /\ wall.minute > SUMMARY_MINUTE

\* C28: a tick starts sending only at SUMMARY_HOUR:SUMMARY_MINUTE and only
\* for the date of its clock reading; a tick outside that minute sends
\* nothing; summaries are sent by a tick in flight only, for its own date.
\* So once the matching minute of a date is over and no tick is in flight,
\* no summary of that date is sent any more, delivered before or not.
C28_OnlyInMatchingMinute ==
    [][ /\ (jobs[1].pc = "idle" /\ jobs'[1].pc = "sending") =>
              /\ wall.hour = SUMMARY_HOUR /\ wall.minute = SUMMARY_MINUTE
              /\ jobs'[1].today_key = DateKey(wall)
        /\ (jobs[1].pc = "sending" /\ jobs'[1].pc = "sending") =>
              jobs'[1].today_key = jobs[1].today_key
        /\ Len(outbox') > Len(outbox) =>
              /\ jobs[1].pc = "sending"
              /\ outbox'[Len(outbox')].ref[2] = jobs[1].today_key
        /\ \A day \in 1..MaxDays :
              (PastSummaryTime(day) /\ jobs[1].pc = "idle") =>
                  \A c \in ClientIds :
                      Len(SelectSeq(outbox', LAMBDA m : m.ref = SummaryKey(c, day)))
                        = Len(SelectSeq(outbox, LAMBDA m : m.ref = SummaryKey(c, day)))
      ]_vars

\* Day 2 has begun and its first tick has run; the only send of tenant
\* acme's summary of day 1 failed, and it was never delivered.
C28_Witness ==
    /\ wall.day = 2
    /\ bot_data.summary_last_day = 2
    /\ jobs[1].pc = "idle"
    /\ \E i \in 1..Len(outbox) : outbox[i] = SummarySend(clients[1].telegram_chat_id, 1, 1, FALSE)
    /\ DeliveredIn(outbox, SummaryKey(1, 1)) = 0

----------------------------------------------------------------------------
\* Properties of the poll and of the chat notifications.

\* C29: a step of a poll, whether it ends with 404 or with the messages and
\* whatever its since value, changes nothing but the handler's own response:
\* no session, message, tenant, link, setting, order or event, no task, no
\* send, no owner state.
C29_PollReadOnly ==
    [][ (api'.kind = "chat_poll" /\ api' # api) =>
            UNCHANGED <<dbVars, chatVars, now, bot, user_data, notifVars, tickVars>>
      ]_vars

\* A poll returned both stored messages of an open session; they are still
\* stored, and the only pending task is the one of the chat start.
C29_Witness ==
    /\ api.kind = "chat_poll" /\ api.pc = "done" /\ api.resp.code = 200
    /\ api.sid \in SessionIds
    /\ Len(api.resp.messages) = 2
    /\ Len(chat_messages[api.sid]) = 2
    /\ chat_sessions[api.sid].status = "open"
    /\ BagCardinality(tasks) + Len(outbox) = 1

\* The destination linked to the tenant of a session.
DestinationOf(sid) == clients[chat_sessions[sid].client_id].telegram_chat_id

\* C30: the step that ends a chat start with success creates exactly one
\* new_chat task, the step that ends a follow-up with success exactly one
\* followup task, each for the destination of the session's tenant; a chat
\* request that ends with an error creates no task and sends nothing; a chat
\* task is created by no other step; when a chat task runs, it calls
\* send_message once, for its destination, or not at all when the tenant has
\* no destination.
C30_OneNotificationPerChatPost ==
    [][ LET new == tasks' (-) tasks
            ran == tasks (-) tasks'
        IN  /\ (api.pc \in {"save_first", "append"} /\ api' # api) =>
                  /\ api'.pc = "done" /\ api'.resp.code = 200
                  /\ BagCardinality(new) = 1
                  /\ tasks' = tasks (+) new
                  /\ \A t \in BagToSet(new) :
                        /\ t.kind = IF api.pc = "save_first" THEN "new_chat"
                                    ELSE "followup"
                        /\ t.dest = DestinationOf(api.sid)
                        /\ t.sid = api.sid /\ t.text = api.text
            /\ (api' # api /\ api'.kind \in {"chat_start", "chat_message"}
                    /\ api'.pc = "done" /\ api'.resp.code # 200) =>
                  /\ tasks' = tasks
                  /\ outbox' = outbox
            /\ \A t \in BagToSet(new) :
                  t.kind \in {"new_chat", "followup"} =>
                      /\ api.pc = IF t.kind = "new_chat" THEN "save_first" ELSE "append"
                      /\ api' # api
            /\ \A t \in BagToSet(ran) :
                  t.kind \in {"new_chat", "followup"} =>
                      IF t.dest = 0 THEN outbox' = outbox
                      ELSE /\ Len(outbox') = Len(outbox) + 1
                           /\ SubSeq(outbox', 1, Len(outbox)) = outbox
                           /\ outbox'[Len(outbox')].dest = t.dest
                           /\ outbox'[Len(outbox')].kind = t.kind
                           /\ outbox'[Len(outbox')].ref = <<t.sid, t.text>>
            /\ Len(outbox') > Len(outbox) => BagCardinality(ran) = 1
      ]_vars

\* Tenant acme's chat start and its follow-up were accepted, and each was
\* sent once to chat 10; no task is left.
C30_Witness ==
    /\ tasks = EmptyBag
    /\ Len(outbox) = 2
    /\ outbox[1].kind = "new_chat" /\ outbox[1].dest = 10
    /\ outbox[2].kind = "followup" /\ outbox[2].dest = 10
    /\ \E sid \in SessionIds :
          /\ Len(chat_messages[sid]) = 2
          /\ DestinationOf(sid) = 10

----------------------------------------------------------------------------
\* Properties of incremental polling (SpecChat).

\* The largest sent_at among the messages of a poll response.
LargestSentAt(rows) ==
    CHOOSE t \in {rows[i].sent_at : i \in 1..Len(rows)} :
        \A i \in 1..Len(rows) : rows[i].sent_at <= t

\* C31: when a since=0 poll has returned messages, those messages followed
\* by what the next poll returns, with since the largest sent_at received,
\* are all the messages of the session, each once, whatever was appended in
\* between.
C31_IncrementalPollsLoseNothing ==
    (/\ api.kind = "chat_poll" /\ api.pc = "done" /\ api.since = 0
     /\ api.resp.code = 200 /\ api.resp.messages # <<>>) =>
        api.resp.messages
            \o chat_poll_response(get_chat_session(api.sid), api.sid,
                                  LargestSentAt(api.resp.messages)).messages
          = PollFromZero(api.sid)

----------------------------------------------------------------------------
\* The owner's pending reply (src/bot.py:295-357): taps on the Reply and
\* Close buttons of the delivered notifications, and plain text, of any
\* user in any chat.

NextPending ==
    \/ \E w \in WidgetLogins, v \in Visitors, m \in Texts :
          ChatStartCreate(w[1], w[2], v, m)
    \/ ChatStartSave
    \/ \E task \in BagToSet(tasks) : RunTask(task)
    \/ \E chat \in ChatIds : \E k \in Buttons(chat) : CallbackCloseLookup(chat, k.sid)
    \/ CallbackCloseDo
    \/ \E edited \in BOOLEAN : CallbackCloseEdit(edited)
    \/ \E sent \in BOOLEAN : CallbackCloseNote(sent)
    \/ \E user \in Users, chat \in ChatIds : \E k \in Buttons(chat) :
          CallbackReply(user, chat, k.sid, k.visitor)
    \/ \E user \in Users, chat \in ChatIds, m \in Texts :
          HandleReplyMessageCheck(user, chat, m)
    \/ \E sent \in BOOLEAN : HandleReplyMessageRefuse(sent)
    \/ HandleReplyMessageAppend
    \/ \E sent \in BOOLEAN : HandleReplyMessageConfirm(sent)

SpecPending == InitChat /\ [][NextPending]_vars

\* The step is the handling of a plain text message up to its verdict.
TextArrives == BotFree /\ bot'.kind = "typed_reply" /\ bot' # bot

\* C32: plain text with no pending reply appends nothing; text that is let
\* through had a pending reply of the same user and, when the update before
\* it was a Reply tap of that user, goes to the session of that tap; text
\* that is refused appends nothing and clears the pending reply; the append
\* adds one owner message to that session and clears the pending reply.  A
\* message is appended by no other step of the bot's text handler.
C32_OneMessagePerReplyTap ==
    [][ /\ TextArrives =>
              /\ chat_messages' = chat_messages
              /\ ~user_data[bot'.user].pending =>
                    (bot'.pc = "done" /\ user_data' = user_data)
              /\ bot'.pc = "append" =>
                    /\ user_data[bot'.user].pending
                    /\ (bot.kind = "button_reply" /\ bot.user = bot'.user)
                          => bot'.sid = bot.sid
        /\ (bot.kind = "typed_reply" /\ bot.pc = "refuse" /\ bot' # bot) =>
              /\ chat_messages' = chat_messages
              /\ ~user_data'[bot.user].pending
        /\ (bot.kind = "typed_reply" /\ bot.pc = "append" /\ bot' # bot) =>
              /\ ~user_data'[bot.user].pending
              /\ Len(chat_messages'[bot.sid]) = Len(chat_messages[bot.sid]) + 1
              /\ chat_messages'[bot.sid][Len(chat_messages'[bot.sid])].sender = "owner"
        /\ (bot.kind = "typed_reply" /\ bot.pc = "confirm" /\ bot' # bot) =>
              /\ chat_messages' = chat_messages
              /\ user_data' = user_data
      ]_vars

----------------------------------------------------------------------------
\* Properties of tenant resolution (SpecLink).

\* C33: every chat has active links to at most one tenant, and the lookup
\* that owner commands use finds at most one tenant for it.
C33_OneTenantPerDestination ==
    \A chat \in ChatIds :
        /\ Cardinality({l.client_id : l \in {k \in telegram_chats :
                                                k.chat_id = chat /\ k.active}}) <= 1
        /\ Cardinality(get_client_by_chat_id(chat)) <= 1

====
